---------------------------- MODULE Spec2Model ----------------------------
(***************************************************************************)
(* A model of the rust-mcp-server agent core:                              *)
(*   - AgentExecutor::execute_multi_step, try_action_with_retry and        *)
(*     is_task_complete (agent/executor.rs), one action per await point;   *)
(*   - the prompt builders (agent/prompt.rs), texts being sequences of     *)
(*     string atoms and format!() their concatenation;                     *)
(*   - the per-session page lock taken by BrowserAutomation and            *)
(*     ContextExtractor (browser/automation.rs, context_extractor.rs).     *)
(***************************************************************************)
EXTENDS Integers, Sequences, FiniteSets, TLC

(***************************************************************************)
(* Bounds of the model.                                                    *)
(***************************************************************************)
MaxStepsBound == 2
MaxRetriesBound == 1
NumTasks == 2
MaxElements == 2
MaxWaits == 2
MaxStoreSteps == 5
MaxExpiration == 2

(***************************************************************************)
(* Option<T>: None is the empty sequence, Some(x) the singleton.           *)
(***************************************************************************)
None == <<>>
Some(x) == <<x>>
IsSome(o) == o # None
Unwrap(o) == o[1]

(***************************************************************************)
(* Texts.  A text is a sequence of atoms; T(s) is the literal s, and       *)
(* format!() concatenates.  Contains is str::contains.                     *)
(***************************************************************************)
T(s) == <<s>>

Contains(text, part) ==
  \E i \in 1..(Len(text) - Len(part) + 1) :
     SubSeq(text, i, i + Len(part) - 1) = part

IsPrefix(s, t) == Len(s) <= Len(t) /\ SubSeq(t, 1, Len(s)) = s

Last(s) == s[Len(s)]

BoolStr(b) == IF b THEN "true" ELSE "false"

(***************************************************************************)
(* models/context.rs                                                       *)
(***************************************************************************)
SimplifiedElement_new(id, role, name, in_viewport) ==
  [ id |-> id,
    display |->
      IF IsSome(name)
        THEN <<"[", ToString(id), "] ", role, "('", Unwrap(name), "')">>
        ELSE <<"[", ToString(id), "] ", role>>,
    selector |-> [ role |-> role, name |-> name,
                   description |-> None, css_fallback |-> None ],
    in_viewport |-> in_viewport ]

\* The pages the browser surface can be showing, and the UIContext that
\* ContextExtractor::extract builds for each.
Pages == {1, 2}

Context(p) ==
  IF p = 1
    THEN [ url |-> "http://localhost:3000/login",
           title |-> "Login",
           viewport |-> [ width |-> 1280, height |-> 720,
                          scroll_x |-> 0, scroll_y |-> 0 ],
           elements |-> << SimplifiedElement_new(0, "button", Some("Login"), TRUE),
                           SimplifiedElement_new(1, "textbox", Some("Username"), FALSE) >> ]
    ELSE [ url |-> "http://localhost:3000/home",
           title |-> "Home",
           viewport |-> [ width |-> 1280, height |-> 720,
                          scroll_x |-> 0, scroll_y |-> 300 ],
           elements |-> << >> ]

Task == "Log in"

(***************************************************************************)
(* agent/prompt.rs                                                         *)
(***************************************************************************)
RECURSIVE elements_str(_)
elements_str(elems) ==
  IF elems = << >> THEN << >>
  ELSE Head(elems).display
         \o <<" - in_viewport: ", BoolStr(Head(elems).in_viewport), "\n">>
         \o elements_str(Tail(elems))

\* str::trim on the element block: the block never starts with whitespace,
\* and ends with the newline of its last line.
Trim(text) ==
  IF text # << >> /\ Last(text) = "\n" THEN SubSeq(text, 1, Len(text) - 1) ELSE text

build_system_prompt == T("You are a UI automation agent ... just JSON.")

build_user_prompt(context, task) ==
  <<"Current Page State:\nURL: ", context.url, "\nTitle: ", context.title,
    "\nViewport: ", ToString(context.viewport.width), "x",
    ToString(context.viewport.height), " (scroll: ",
    ToString(context.viewport.scroll_x), ", ",
    ToString(context.viewport.scroll_y), ")",
    "\n\nAvailable Elements (Accessibility Tree):\n">>
  \o Trim(elements_str(context.elements))
  \o <<"\n\nYour Task: ", task,
       "\n\nPlease provide the NEXT SINGLE ACTION to accomplish this task as a JSON object.">>

\* A faulty variant of build_retry_prompt: the failed action is left out of the text.
build_retry_prompt_no_action(context, task, failed_action, error_message, suggestion) ==
  <<"Current Page State:\nURL: ", context.url, "\nTitle: ", context.title,
    "\n\nAvailable Elements (Accessibility Tree):\n">>
  \o Trim(elements_str(context.elements))
  \o <<"\n\nYour Task: ", task, "\n\nPrevious Action Attempted:\n">>
  \o <<"\n\nThis action failed with error: ">>
  \o error_message
  \o <<"\n\nSuggestion: ">>
  \o suggestion
  \o <<"\n\nBased on this feedback, please provide the CORRECTED NEXT ACTION as a JSON object.">>

\* A faulty variant of build_retry_prompt: the suggestion is left out of the text.
build_retry_prompt_no_suggestion(context, task, failed_action, error_message, suggestion) ==
  <<"Current Page State:\nURL: ", context.url, "\nTitle: ", context.title,
    "\n\nAvailable Elements (Accessibility Tree):\n">>
  \o Trim(elements_str(context.elements))
  \o <<"\n\nYour Task: ", task, "\n\nPrevious Action Attempted:\n">>
  \o failed_action
  \o <<"\n\nThis action failed with error: ">>
  \o error_message
  \o <<"\n\nBased on this feedback, please provide the CORRECTED NEXT ACTION as a JSON object.">>

\* A faulty variant of build_retry_prompt: the page state is left out of the text.
build_retry_prompt_no_page(context, task, failed_action, error_message, suggestion) ==
  <<"Your Task: ", task, "\n\nPrevious Action Attempted:\n">>
  \o failed_action
  \o <<"\n\nThis action failed with error: ">>
  \o error_message
  \o <<"\n\nSuggestion: ">>
  \o suggestion
  \o <<"\n\nBased on this feedback, please provide the CORRECTED NEXT ACTION as a JSON object.">>

build_retry_prompt(context, task, failed_action, error_message, suggestion) ==
  <<"Current Page State:\nURL: ", context.url, "\nTitle: ", context.title,
    "\n\nAvailable Elements (Accessibility Tree):\n">>
  \o Trim(elements_str(context.elements))
  \o <<"\n\nYour Task: ", task, "\n\nPrevious Action Attempted:\n">>
  \o failed_action
  \o <<"\n\nThis action failed with error: ">>
  \o error_message
  \o <<"\n\nSuggestion: ">>
  \o suggestion
  \o <<"\n\nBased on this feedback, please provide the CORRECTED NEXT ACTION as a JSON object.">>


(***************************************************************************)
(* Result<T, E>                                                            *)
(***************************************************************************)
Ok(x) == [ok |-> TRUE, val |-> x]
Err(e) == [ok |-> FALSE, err |-> e]

(***************************************************************************)
(* models/action.rs                                                        *)
(***************************************************************************)
ActionResponse_success ==
  [ success |-> TRUE, error |-> None, reason |-> None,
    suggestion |-> None, details |-> None ]

error_with_suggestion(error, reason, suggestion) ==
  [ success |-> FALSE, error |-> Some(error), reason |-> Some(reason),
    suggestion |-> Some(suggestion), details |-> None ]

\* A faulty variant of element_not_visible: a kind of its own.
element_not_visible_other_kind(element_name, role) ==
  error_with_suggestion(
    T("below_viewport"),
    <<"Element '", element_name, "' (", role, ") was found but is below viewport.">>,
    T("call scroll_down() or wait_for_element()"))

element_not_visible(element_name, role) ==
  error_with_suggestion(
    T("element_not_visible"),
    <<"Element '", element_name, "' (", role, ") was found but is below viewport.">>,
    T("call scroll_down() or wait_for_element()"))

element_not_found(selector) ==
  error_with_suggestion(
    T("element_not_found"),
    <<"Could not find ", selector.role, " with name '",
      (IF IsSome(selector.name) THEN Unwrap(selector.name) ELSE "unknown"), "'">>,
    T("try get_context() to see available elements"))

element_not_enabled(element_name) ==
  error_with_suggestion(
    T("element_not_enabled"),
    <<"Element '", element_name, "' is disabled">>,
    T("wait for element to become enabled or check if preconditions are met"))

\* The decision texts the oracle may reply with: two that serde accepts as
\* an ActionRequest, one that is no JSON, one with an unknown "tool".
ClickText == T("{\"tool\":\"click\",\"role\":\"button\",\"name\":\"Login\"}")
ScrollText == T("{\"tool\":\"scroll\",\"direction\":\"down\"}")
ProseText == T("I will click the Login button")
UnknownToolText == T("{\"tool\":\"hover\",\"role\":\"button\"}")

DecisionTexts == {ClickText, ScrollText, ProseText, UnknownToolText}

ClickAction ==
  [ tool |-> "click",
    selector |-> [ role |-> "button", name |-> Some("Login"),
                   description |-> None, css_fallback |-> None ] ]

ScrollAction == [ tool |-> "scroll", direction |-> "down", amount |-> None ]

\* serde_json::from_str::<ActionRequest>
ParseAction(text) ==
  CASE text = ClickText -> Ok(ClickAction)
    [] text = ScrollText -> Ok(ScrollAction)
    [] text = ProseText -> Err(T("expected value at line 1 column 1"))
    [] OTHER -> Err(T("unknown variant hover"))

JsonOptStr(o) == IF IsSome(o) THEN <<"\"", Unwrap(o), "\"">> ELSE T("null")
JsonOptNum(o) == IF IsSome(o) THEN T(ToString(Unwrap(o))) ELSE T("null")

\* serde_json::to_string(&action): the tag first, then every field, the
\* absent options as null.
SerializeAction(a) ==
  IF a.tool = "click"
    THEN <<"{\"tool\":\"click\",\"role\":\"", a.selector.role, "\",\"name\":">>
           \o JsonOptStr(a.selector.name)
           \o T(",\"description\":") \o JsonOptStr(a.selector.description)
           \o T(",\"css_fallback\":") \o JsonOptStr(a.selector.css_fallback)
           \o T("}")
    ELSE <<"{\"tool\":\"scroll\",\"direction\":\"", a.direction, "\",\"amount\":">>
           \o JsonOptNum(a.amount) \o T("}")

(***************************************************************************)
(* The outcomes of the external calls.                                     *)
(***************************************************************************)
\* LLMClient::generate_json: a transport failure, no content, or a text.
GenerateJsonOutcomes(texts) ==
  { Ok(t) : t \in texts }
    \cup { Err(T("http error: connection refused")), Err(T("No response from LLM")) }

\* ContextExtractor::extract on the page now shown.
ExtractOutcomes(p) == { Ok(Context(p)), Err(T("Request timed out")) }

NameOrUnknown(selector) ==
  IF IsSome(selector.name) THEN Unwrap(selector.name) ELSE "unknown"

\* BrowserAutomation::execute_action: what click and scroll can return.
ExecuteOutcomes(a) ==
  IF a.tool = "click"
    THEN { Ok(ActionResponse_success),
           Ok(element_not_visible(NameOrUnknown(a.selector), a.selector.role)),
           Ok(element_not_enabled(NameOrUnknown(a.selector))),
           Ok(element_not_found(a.selector)),
           Ok(error_with_suggestion(T("execution_error"),
                <<"Failed to click: ", "evaluate failed">>,
                T("try get_context() to verify element exists"))),
           Err(T("Request timed out")) }
    ELSE { Ok(ActionResponse_success), Err(T("Request timed out")) }

\* The completion texts the oracle may reply with.
CompletedText == T("{\"completed\":true,\"reason\":\"logged in\"}")
NotCompletedText == T("{\"completed\":false,\"reason\":\"still on login\"}")
NoReasonText == T("{\"completed\":true}")
YesText == T("Yes, the task is completed: true")

CompletionTexts == {CompletedText, NotCompletedText, NoReasonText, YesText}

\* serde_json::from_str::<CompletionResponse>: both fields are required.
ParseCompletion(text) ==
  CASE text = CompletedText -> Ok([completed |-> TRUE, reason |-> "logged in"])
    [] text = NotCompletedText -> Ok([completed |-> FALSE, reason |-> "still on login"])
    [] text = NoReasonText -> Err(T("missing field reason"))
    [] OTHER -> Err(T("expected value at line 1 column 1"))


(***************************************************************************)
(* The state of one run of AgentExecutor::execute_multi_step.              *)
(***************************************************************************)
VARIABLES
  max_steps,              \* max_steps.unwrap_or(20), fixed for the run
  max_retries_per_step,   \* max_retries_per_step.unwrap_or(3), fixed
  pc,                     \* the await the run is suspended at, or "done"
  step_num,               \* the loop variable of execute_multi_step
  steps,                  \* Vec<ConversationStep>
  total_retries,
  context,                \* Option: the snapshot taken at the top of the step
  current_prompt,         \* try_action_with_retry: the user prompt in use
  retry,                  \* try_action_with_retry: the loop variable
  action,                 \* Option: the action parsed in this attempt
  llm_response,           \* Option: the decision text of this attempt
  context_after,          \* Option: the snapshot taken after the action
  page,                   \* the browser surface: the page now shown
  result,                 \* Option: the Ok(MultiStepExecutionResult) returned
  fault,                  \* Option: the Err(e) returned to the caller
  \* History variables, read by the properties only.
  log,                    \* the calls of the current step, in order
  last_attempt,           \* Option: the last executed action of the step and its outcome
  retries_performed,      \* the times a retry loop went round again, whole run
  comp_reply,             \* Option: the last completion-oracle outcome
  comp_prompt,            \* Option: the user prompt of the last completion-oracle call
  decide_calls,           \* decision-oracle calls of the whole run
  comp_calls,             \* completion-oracle calls of the whole run
  exit_path               \* the return statement the run left by

(***************************************************************************)
(* The state of the page lock of one session (tokio::sync::RwLock<Page>)   *)
(* and of the requests using it.                                           *)
(***************************************************************************)
VARIABLES
  readers,                \* the read guards held on the session's page
  writer,                 \* whether a write guard is held
  tpc,                    \* per request: the await it is suspended at
  top                     \* per request: the operation it runs

(***************************************************************************)
(* The page one BrowserAutomation drives, and the last execute_action      *)
(* call made on it.                                                        *)
(***************************************************************************)
VARIABLES
  dom,                    \* the page the call finds: what the selectors match, each element's style
  clicks,                 \* per element: the click() calls that reached it
  typed,                  \* per element: Option, the text typed into it
  b_request,              \* Option: the ActionRequest of the last call
  b_response,             \* Option: the Result<ActionResponse> it returned
  b_calls                 \* the page calls that call made, in order

(***************************************************************************)
(* One call of a prompt builder: its arguments and the text it returns.    *)
(***************************************************************************)
VARIABLES
  p_context,              \* the UIContext passed
  p_task,                 \* the task passed
  p_retry,                \* Option: the failed action, error and suggestion passed
  p_prompt                \* Option: the text returned

(***************************************************************************)
(* The state of one call of AgentExecutor::execute_single_step.            *)
(***************************************************************************)
VARIABLES
  s_pc,                   \* the await the call is suspended at, or "done"
  s_task,                 \* the task passed
  s_page,                 \* the browser surface: the page now shown
  s_context,              \* Option: the snapshot taken first
  s_llm_response,         \* Option: the decision text
  s_action,               \* Option: the action parsed from it
  s_action_result,        \* Option: the ActionResponse of the execution
  s_result                \* Option: the Result<AgentExecutionResult> returned

(***************************************************************************)
(* Claims and tokens of auth/jwt.rs, and the clock they are read against.   *)
(***************************************************************************)
VARIABLES
  j_now,                  \* SystemTime::now(), in seconds since the epoch
  j_waits,                \* the waits made so far
  j_claims,               \* Option: the Claims in hand
  j_made,                 \* how the claims came about
  j_token,                \* Option: the encoding secret and what encode returned
  j_decoded               \* Option: the decoding secret, the time and what decode returned

(***************************************************************************)
(* One RedisSessionStore and the Redis server behind it.                   *)
(***************************************************************************)
VARIABLES
  r_now,                  \* the server's clock, in seconds
  r_expiration_seconds,   \* RedisSessionStore.expiration_seconds
  r_keys,                 \* per session id: Option, the value stored and its expiry
  r_index,                \* per user id: the set "user_sessions:{user}" and its expiry
  r_last,                 \* the last operation and what it returned
  r_steps                 \* the operations and waits so far

(***************************************************************************)
(* One failed execution inside try_action_with_retry, and what the retry   *)
(* loop makes of it.                                                       *)
(***************************************************************************)
VARIABLES
  f_result,               \* the ActionResponse of execute_action, success = false
  f_action,               \* the action that was executed
  f_context,              \* the context the engine was given
  f_retry,                \* the loop variable
  f_max_retries,          \* max_retries
  f_next                  \* Option: the next prompt, or the Err returned

(***************************************************************************)
(* One call of LLMClient::generate_json.                                   *)
(***************************************************************************)
VARIABLES
  l_pc,                   \* "call", "awaiting" the oracle, or "done"
  l_model,                \* the model the client was built with
  l_user,                 \* the user message passed
  l_requests,             \* the requests sent to the oracle, in order
  l_response,             \* Option: what the oracle call returned
  l_result                \* Option: the Result<String> returned

(***************************************************************************)
(* One SessionManager, its sessions' browsers, and the calls made on it.   *)
(***************************************************************************)
VARIABLES
  m_sessions,             \* the DashMap: per id, Option of SessionData
  m_pages,                \* per id: Option, the page of the browser launched for it
  m_pending,              \* the create_session calls awaiting their browser
  m_next_id,              \* the ids Session::new has issued so far, plus one
  m_now,                  \* Utc::now()
  m_last                  \* the call that returned last, and what it returned

runVars == << max_steps, max_retries_per_step, pc, step_num, steps, total_retries,
              context, current_prompt, retry, action, llm_response, context_after,
              page, result, fault, log, last_attempt, retries_performed,
              comp_reply, comp_prompt, decide_calls, comp_calls, exit_path >>

lockVars == << readers, writer, tpc, top >>

browserVars == << dom, clicks, typed, b_request, b_response, b_calls >>

\* What an action of one part of the program leaves alone.
promptVars == << p_context, p_task, p_retry, p_prompt >>

singleVars == << s_pc, s_task, s_page, s_context, s_llm_response, s_action,
                 s_action_result, s_result >>

jwtVars == << j_now, j_waits, j_claims, j_made, j_token, j_decoded >>

storeVars == << r_now, r_expiration_seconds, r_keys, r_index, r_last, r_steps >>

feedbackVars == << f_result, f_action, f_context, f_retry, f_max_retries, f_next >>

llmVars == << l_pc, l_model, l_user, l_requests, l_response, l_result >>

managerVars == << m_sessions, m_pages, m_pending, m_next_id, m_now, m_last >>

notRunVars == << managerVars, llmVars, feedbackVars, lockVars, browserVars, promptVars, singleVars, jwtVars, storeVars >>
notLockVars == << managerVars, llmVars, feedbackVars, runVars, browserVars, promptVars, singleVars, jwtVars, storeVars >>
notBrowserVars == << managerVars, llmVars, feedbackVars, runVars, lockVars, promptVars, singleVars, jwtVars, storeVars >>
notPromptVars == << managerVars, llmVars, feedbackVars, runVars, lockVars, browserVars, singleVars, jwtVars, storeVars >>
notSingleVars == << managerVars, llmVars, feedbackVars, runVars, lockVars, browserVars, promptVars, jwtVars, storeVars >>
notJwtVars == << managerVars, llmVars, feedbackVars, runVars, lockVars, browserVars, promptVars, singleVars, storeVars >>
notStoreVars == << managerVars, llmVars, feedbackVars, runVars, lockVars, browserVars, promptVars, singleVars,
                  jwtVars >>
notFeedbackVars == << managerVars, llmVars, runVars, lockVars, browserVars, promptVars, singleVars, jwtVars,
                     storeVars >>

notLlmVars == << managerVars, feedbackVars, runVars, lockVars, browserVars, promptVars, singleVars,
                jwtVars, storeVars >>

notManagerVars == << llmVars, feedbackVars, runVars, lockVars, browserVars, promptVars,
                    singleVars, jwtVars, storeVars >>

vars == << runVars, lockVars, browserVars, promptVars, singleVars, jwtVars,
           storeVars, feedbackVars, llmVars, managerVars >>

(***************************************************************************)
(* execute_multi_step: the four results it builds.                         *)
(***************************************************************************)
\* A faulty variant of ExtractFailedResult: the result carries no error.
ExtractFailedResult_no_error(e) ==
  [ task_completed |-> FALSE,
    steps_taken |-> Len(steps),
    max_steps |-> max_steps,
    steps |-> steps,
    final_context |-> None,
    error |-> None,
    retries_count |-> total_retries ]

\* A faulty variant of ExtractFailedResult: the step that failed is counted as taken.
ExtractFailedResult_counting_step(e) ==
  [ task_completed |-> FALSE,
    steps_taken |-> step_num,
    max_steps |-> max_steps,
    steps |-> steps,
    final_context |-> None,
    error |-> Some(<<"Failed to extract context at step ", ToString(step_num), ": ">> \o e),
    retries_count |-> total_retries ]

ExtractFailedResult(e) ==
  [ task_completed |-> FALSE,
    steps_taken |-> Len(steps),
    max_steps |-> max_steps,
    steps |-> steps,
    final_context |-> None,
    error |-> Some(<<"Failed to extract context at step ", ToString(step_num), ": ">> \o e),
    retries_count |-> total_retries ]

\* A faulty variant of StepFailedResult: the snapshot of the failed step is not handed back.
StepFailedResult_no_context(e) ==
  [ task_completed |-> FALSE,
    steps_taken |-> Len(steps),
    max_steps |-> max_steps,
    steps |-> steps,
    final_context |-> None,
    error |-> Some(<<"Failed at step ", ToString(step_num), " after retries: ">> \o e),
    retries_count |-> total_retries ]

StepFailedResult(e) ==
  [ task_completed |-> FALSE,
    steps_taken |-> Len(steps),
    max_steps |-> max_steps,
    steps |-> steps,
    final_context |-> context,
    error |-> Some(<<"Failed at step ", ToString(step_num), " after retries: ">> \o e),
    retries_count |-> total_retries ]

\* A faulty variant of CompletedResult: the snapshot from before the action is handed back.
CompletedResult_stale_context ==
  [ task_completed |-> TRUE,
    steps_taken |-> step_num,
    max_steps |-> max_steps,
    steps |-> steps,
    final_context |-> context,
    error |-> None,
    retries_count |-> total_retries ]

\* A faulty variant of CompletedResult: the step number taken as zero-based.
CompletedResult_zero_based ==
  [ task_completed |-> TRUE,
    steps_taken |-> step_num - 1,
    max_steps |-> max_steps,
    steps |-> steps,
    final_context |-> context_after,
    error |-> None,
    retries_count |-> total_retries ]

CompletedResult ==
  [ task_completed |-> TRUE,
    steps_taken |-> step_num,
    max_steps |-> max_steps,
    steps |-> steps,
    final_context |-> context_after,
    error |-> None,
    retries_count |-> total_retries ]

\* A faulty variant of BudgetResult: the result carries no error.
BudgetResult_no_error(final_context) ==
  [ task_completed |-> FALSE,
    steps_taken |-> max_steps,
    max_steps |-> max_steps,
    steps |-> steps,
    final_context |-> final_context,
    error |-> None,
    retries_count |-> total_retries ]

BudgetResult(final_context) ==
  [ task_completed |-> FALSE,
    steps_taken |-> max_steps,
    max_steps |-> max_steps,
    steps |-> steps,
    final_context |-> final_context,
    error |-> Some(<<"Reached maximum steps (", ToString(max_steps),
                     ") without completing task">>),
    retries_count |-> total_retries ]

\* A faulty variant of LoopHead: the first step is taken whatever the budget.
LoopHead_at_least_once(n) == IF n = 1 \/ n <= max_steps THEN "extract" ELSE "final"

\* A faulty variant of LoopHead: the loop runs one iteration too many.
LoopHead_off_by_one(n) == IF n <= max_steps + 1 THEN "extract" ELSE "final"

\* A faulty variant of LoopHead: the loop has no upper end.
LoopHead_unbounded(n) == IF n >= 1 THEN "extract" ELSE "final"

\* for step_num in 1..=max_steps: where the loop goes with step number n.
LoopHead(n) == IF n <= max_steps THEN "extract" ELSE "final"

\* A faulty variant of RetryAllowed: no attempt is ever retried.
RetryAllowed_never == retry < 0

\* A faulty variant of RetryAllowed: the last attempt is retried once more.
RetryAllowed_inclusive == retry <= max_retries_per_step

\* if retry < max_retries
RetryAllowed == retry < max_retries_per_step

\* A faulty variant of error_msg: the reason is preferred to the error.
error_msg_reason_first(resp) ==
  IF IsSome(resp.reason) THEN Unwrap(resp.reason)
  ELSE IF IsSome(resp.error) THEN Unwrap(resp.error)
  ELSE T("Action failed")

\* result.error.or(result.reason).unwrap_or("Action failed")
error_msg(resp) ==
  IF IsSome(resp.error) THEN Unwrap(resp.error)
  ELSE IF IsSome(resp.reason) THEN Unwrap(resp.reason)
  ELSE T("Action failed")

\* result.suggestion.unwrap_or_else(|| "Try a different approach")
suggestion_or_default(resp) ==
  IF IsSome(resp.suggestion) THEN Unwrap(resp.suggestion)
  ELSE T("Try a different approach")

\* A faulty variant of NewStep: the result of the step is recorded as a failure.
NewStep_as_failure(ctx_after) ==
  [ step_number |-> step_num,
    action_decided |-> Unwrap(action),
    action_result |-> [ success |-> FALSE, error |-> Some(T("execution_error")),
                        reason |-> None, suggestion |-> None, details |-> None ],
    context_after |-> ctx_after,
    llm_response |-> Unwrap(llm_response) ]

\* The ConversationStep pushed after a successful action.
NewStep(ctx_after) ==
  [ step_number |-> step_num,
    action_decided |-> Unwrap(action),
    action_result |-> [ success |-> TRUE, error |-> None,
                        reason |-> Some(T("Action executed successfully")),
                        suggestion |-> None, details |-> None ],
    context_after |-> ctx_after,
    llm_response |-> Unwrap(llm_response) ]

\* A faulty variant of PushStep: the step is not recorded.
PushStep_dropped(step) == steps

\* A faulty variant of PushStep: the new step is put in front of the history.
PushStep_prepend(step) == << step >> \o steps

PushStep(step) == Append(steps, step)

DebugOptStr(o) == IF IsSome(o) THEN <<"Some(\"", Unwrap(o), "\")">> ELSE T("None")
DebugOptNum(o) == IF IsSome(o) THEN <<"Some(", ToString(Unwrap(o)), ")">> ELSE T("None")

\* The variant name of a ScrollDirection, which serde writes in snake case.
DebugDirection(d) ==
  CASE d = "up" -> "Up"
    [] d = "down" -> "Down"
    [] d = "left" -> "Left"
    [] OTHER -> "Right"

\* format!("{:?}", action): the derived Debug of ActionRequest.
DebugAction(a) ==
  IF a.tool = "click"
    THEN <<"Click { selector: SemanticSelector { role: \"", a.selector.role, "\", name: ">>
           \o DebugOptStr(a.selector.name)
           \o T(", description: ") \o DebugOptStr(a.selector.description)
           \o T(", css_fallback: ") \o DebugOptStr(a.selector.css_fallback)
           \o T(" } }")
    ELSE <<"Scroll { direction: ", DebugDirection(a.direction), ", amount: ">>
           \o DebugOptNum(a.amount) \o T(" }")

\* step.action_result.reason.or(error).unwrap_or("completed")
result_desc(resp) ==
  IF IsSome(resp.reason) THEN Unwrap(resp.reason)
  ELSE IF IsSome(resp.error) THEN Unwrap(resp.error)
  ELSE T("completed")

\* The line of one step in the summary.
step_line(step) ==
  <<"Step ", ToString(step.step_number), ": ">>
    \o DebugAction(step.action_decided)
    \o T(" - ") \o result_desc(step.action_result) \o T("\n")

\* A faulty variant of steps_summary: the last step only.
steps_summary_last_only(history) ==
  IF history = << >> THEN << >> ELSE step_line(Last(history))

\* is_task_complete: the summary of the steps, one line each.
RECURSIVE steps_summary(_)
steps_summary(history) ==
  IF history = << >> THEN << >>
  ELSE step_line(Head(history)) \o steps_summary(Tail(history))

\* is_task_complete: the prompt it sends.
completion_prompt(ctx, task, history) ==
  <<"You are evaluating if a task has been completed.\n\nOriginal Task: ", task,
    "\n\nSteps taken so far:\n">>
  \o steps_summary(history)
  \o <<"\n\nCurrent page state:\nURL: ", ctx.url, "\nTitle: ", ctx.title,
       "\n\nQuestion: Has the task been fully completed ... Respond ONLY with valid JSON.">>

\* A faulty variant of CompletionVerdict: a reply that does not parse counts as done.
CompletionVerdict_lenient(text) ==
  LET p == ParseCompletion(text) IN
  IF p.ok THEN p.val.completed ELSE TRUE

\* is_task_complete, once the oracle has replied: Ok(resp.completed), and
\* Ok(false) for a reply that does not parse.
CompletionVerdict(text) ==
  LET p == ParseCompletion(text) IN
  IF p.ok THEN p.val.completed ELSE FALSE


(***************************************************************************)
(* execute_multi_step, one action per await.                               *)
(***************************************************************************)
\* The caller's max_steps and max_retries_per_step, after unwrap_or: any
\* value within the bounds (the defaults, 20 and 3, lie beyond them).
RunStart(ms, mr, p) ==
  /\ max_steps = ms
  /\ max_retries_per_step = mr
  /\ step_num = 1
  /\ pc = LoopHead(1)
  /\ steps = << >>
  /\ total_retries = 0
  /\ context = None
  /\ current_prompt = << >>
  /\ retry = 0
  /\ action = None
  /\ llm_response = None
  /\ context_after = None
  /\ page = p
  /\ result = None
  /\ fault = None
  /\ log = << >>
  /\ last_attempt = None
  /\ retries_performed = 0
  /\ comp_reply = None
  /\ comp_prompt = None
  /\ decide_calls = 0
  /\ comp_calls = 0
  /\ exit_path = "running"

RunInit ==
  \E ms \in 0..MaxStepsBound, mr \in 0..MaxRetriesBound, p \in Pages :
    RunStart(ms, mr, p)

\* No run asked for.
RunIdle == RunStart(0, 0, 1)

\* return Ok(r)
Return(r, path) ==
  /\ result' = Some(r)
  /\ pc' = "done"
  /\ exit_path' = path

\* try_action_with_retry returned Err(e): the run returns the step failure.
StepFailed(e) == Return(StepFailedResult(e), "step_failed")

\* A faulty variant of Continue: the loop variable is advanced by two.
Continue_by_two ==
  /\ retry' = retry + 2
  /\ retries_performed' = retries_performed + 1
  /\ pc' = "decide"
  /\ UNCHANGED << result, exit_path >>

\* A faulty variant of Continue: the loop variable is not advanced.
Continue_no_increment ==
  /\ retry' = retry
  /\ retries_performed' = retries_performed + 1
  /\ pc' = "decide"
  /\ UNCHANGED << result, exit_path >>

\* continue, in the loop of try_action_with_retry
Continue ==
  /\ retry' = retry + 1
  /\ retries_performed' = retries_performed + 1
  /\ pc' = "decide"
  /\ UNCHANGED << result, exit_path >>

\* A faulty variant of OracleFailed: the oracle's error is retried like a parse error.
OracleFailed_retried(e) ==
  IF RetryAllowed
    THEN Continue
    ELSE /\ StepFailed(e)
         /\ UNCHANGED << retry, retries_performed >>

\* generate_json(..).await? in try_action_with_retry: the oracle's error
\* leaves the retry loop at once.
OracleFailed(e) ==
  /\ StepFailed(e)
  /\ UNCHANGED << retry, retries_performed >>

\* The snapshot at the top of a step, and the prompts built from it.
ExtractContext ==
  /\ pc = "extract"
  /\ \E r \in ExtractOutcomes(page) :
       IF r.ok
         THEN /\ context' = Some(r.val)
              /\ current_prompt' = build_user_prompt(r.val, Task)
              /\ retry' = 0
              /\ pc' = "decide"
              /\ UNCHANGED << result, exit_path >>
         ELSE /\ Return(ExtractFailedResult(r.err), "extract_failed")
              /\ UNCHANGED << context, current_prompt, retry >>
  /\ log' = << >>
  /\ last_attempt' = None
  /\ UNCHANGED << max_steps, max_retries_per_step, step_num, steps, total_retries,
                  action, llm_response, context_after, page, fault,
                  retries_performed, comp_reply, comp_prompt, decide_calls, comp_calls, notRunVars >>

\* generate_json(system_prompt, &current_prompt).await? and the parse.
DecideAction ==
  /\ pc = "decide"
  /\ decide_calls' = decide_calls + 1
  /\ \E r \in GenerateJsonOutcomes(DecisionTexts) :
       IF ~r.ok
         THEN /\ log' = Append(log, "llm_err")
              /\ OracleFailed(r.err)
              /\ UNCHANGED << action, llm_response >>
         ELSE LET parsed == ParseAction(r.val) IN
              IF parsed.ok
                THEN /\ log' = Append(log, "parsed")
                     /\ action' = Some(parsed.val)
                     /\ llm_response' = Some(r.val)
                     /\ pc' = "execute"
                     /\ UNCHANGED << retry, retries_performed, result, exit_path >>
                ELSE /\ log' = Append(log, "parse_fail")
                     /\ UNCHANGED << action, llm_response >>
                     /\ IF RetryAllowed
                          THEN Continue
                          ELSE /\ StepFailed(T("Failed to parse LLM response: ")
                                               \o parsed.err)
                               /\ UNCHANGED << retry, retries_performed >>
  /\ UNCHANGED << max_steps, max_retries_per_step, step_num, steps, total_retries,
                  context, current_prompt, context_after, page, fault,
                  last_attempt, comp_reply, comp_prompt, comp_calls, notRunVars >>

\* browser.execute_action(&action).await and the three ways it ends.
ExecuteAction ==
  /\ pc = "execute"
  /\ \E r \in ExecuteOutcomes(Unwrap(action)) :
       /\ last_attempt' = Some([action |-> Unwrap(action), outcome |-> r])
       /\ IF r.ok /\ r.val.success
            THEN \* return Ok((action, llm_response, retry)); total_retries += retries
                 /\ log' = Append(log, "success")
                 /\ total_retries' = total_retries + retry
                 /\ page' \in Pages
                 /\ pc' = "extract_after"
                 /\ UNCHANGED << retry, retries_performed, current_prompt, action,
                                 llm_response, result, exit_path >>
          ELSE IF r.ok
            THEN /\ log' = Append(log, "rejected")
                 /\ UNCHANGED << total_retries, page >>
                 /\ IF RetryAllowed
                      THEN /\ current_prompt' =
                                build_retry_prompt(Unwrap(context), Task,
                                                   SerializeAction(Unwrap(action)),
                                                   error_msg(r.val),
                                                   suggestion_or_default(r.val))
                           /\ action' = None
                           /\ llm_response' = None
                           /\ Continue
                      ELSE /\ StepFailed(<<"Action failed after ",
                                           ToString(max_retries_per_step), " retries: ">>
                                           \o error_msg(r.val))
                           /\ UNCHANGED << retry, retries_performed, current_prompt,
                                           action, llm_response >>
          ELSE   /\ log' = Append(log, "hard_err")
                 /\ UNCHANGED << total_retries, page >>
                 /\ IF RetryAllowed
                      THEN /\ current_prompt' =
                                build_retry_prompt(Unwrap(context), Task,
                                                   SerializeAction(Unwrap(action)),
                                                   r.err,
                                                   T("Check if the element exists and is interactable"))
                           /\ action' = None
                           /\ llm_response' = None
                           /\ Continue
                      ELSE /\ StepFailed(r.err)
                           /\ UNCHANGED << retry, retries_performed, current_prompt,
                                           action, llm_response >>
  /\ UNCHANGED << max_steps, max_retries_per_step, step_num, steps, context,
                  context_after, fault, comp_reply, comp_prompt, decide_calls, comp_calls,
                  notRunVars >>

\* A faulty variant of ExtractAfter: the next step begins without the completion check.
ExtractAfter_skipping_check ==
  /\ pc = "extract_after"
  /\ \E r \in ExtractOutcomes(page) :
       LET ctx_after == IF r.ok THEN r.val ELSE Unwrap(context) IN
       steps' = PushStep(NewStep(ctx_after))
  /\ step_num' = step_num + 1
  /\ pc' = LoopHead(step_num + 1)
  /\ action' = None
  /\ llm_response' = None
  /\ context_after' = None
  /\ UNCHANGED << max_steps, max_retries_per_step, total_retries, context,
                  current_prompt, retry, page, result, fault,
                  log, last_attempt, retries_performed, comp_reply, comp_prompt, decide_calls,
                  comp_calls, exit_path, notRunVars >>

\* The snapshot after the action (the pre-action context when it fails),
\* and the push of the step.
ExtractAfter ==
  /\ pc = "extract_after"
  /\ \E r \in ExtractOutcomes(page) :
       LET ctx_after == IF r.ok THEN r.val ELSE Unwrap(context) IN
       /\ context_after' = Some(ctx_after)
       /\ steps' = PushStep(NewStep(ctx_after))
  /\ pc' = "complete"
  /\ UNCHANGED << max_steps, max_retries_per_step, step_num, total_retries, context,
                  current_prompt, retry, action, llm_response, page, result, fault,
                  log, last_attempt, retries_performed, comp_reply, comp_prompt, decide_calls,
                  comp_calls, exit_path, notRunVars >>

\* if self.is_task_complete(&context_after, task, &steps).await? { return ... }
CheckCompletion ==
  /\ pc = "complete"
  /\ comp_calls' = comp_calls + 1
  /\ comp_prompt' = Some(completion_prompt(Unwrap(context_after), Task, steps))
  /\ \E r \in GenerateJsonOutcomes(CompletionTexts) :
       /\ comp_reply' = Some(r)
       /\ IF ~r.ok
            THEN \* the ? hands the oracle's error to the caller
                 /\ fault' = Some(r.err)
                 /\ pc' = "done"
                 /\ exit_path' = "fault"
                 /\ UNCHANGED << result, step_num, action, llm_response,
                                 context_after >>
          ELSE IF CompletionVerdict(r.val)
            THEN /\ Return(CompletedResult, "completed")
                 /\ UNCHANGED << fault, step_num, action, llm_response,
                                 context_after >>
          ELSE   \* the next iteration; the locals of this one are dropped
                 /\ step_num' = step_num + 1
                 /\ pc' = LoopHead(step_num + 1)
                 /\ action' = None
                 /\ llm_response' = None
                 /\ context_after' = None
                 /\ UNCHANGED << result, fault, exit_path >>
  /\ UNCHANGED << max_steps, max_retries_per_step, steps, total_retries, context,
                  current_prompt, retry, page, log, last_attempt,
                  retries_performed, decide_calls, notRunVars >>

\* After the loop: the last snapshot (.ok()) and the budget result.
FinalExtract ==
  /\ pc = "final"
  /\ \E r \in ExtractOutcomes(page) :
       Return(BudgetResult(IF r.ok THEN Some(r.val) ELSE None), "budget")
  /\ UNCHANGED << max_steps, max_retries_per_step, step_num, steps, total_retries,
                  context, current_prompt, retry, action, llm_response,
                  context_after, page, fault, log, last_attempt,
                  retries_performed, comp_reply, comp_prompt, decide_calls, comp_calls, notRunVars >>

RunNext ==
  \/ ExtractContext
  \/ DecideAction
  \/ ExecuteAction
  \/ ExtractAfter
  \/ CheckCompletion
  \/ FinalExtract

(***************************************************************************)
(* The page lock.  Every request of a session clones the same              *)
(* Arc<RwLock<Page>> (get_page, and self.page inside BrowserAutomation);   *)
(* ContextExtractor::extract and each action take page.read().await and    *)
(* hold the guard until they return.  No code path takes page.write().     *)
(***************************************************************************)
Tasks == 1..NumTasks

\* The awaits of ContextExtractor::extract and of BrowserAutomation::click
\* made while the guard is held, in order.
ExtractAwaits == << "x_url", "x_title", "x_viewport", "x_axtree" >>
ActionAwaits == << "a_find", "a_visible", "a_enabled", "a_click", "a_settle" >>

InExtract(t) == \E i \in DOMAIN ExtractAwaits : tpc[t] = ExtractAwaits[i]
InAction(t) == \E i \in DOMAIN ActionAwaits : tpc[t] = ActionAwaits[i]

AwaitsOf(t) == IF top[t] = "extract" THEN ExtractAwaits ELSE ActionAwaits

LockInit ==
  /\ readers = 0
  /\ writer = FALSE
  /\ tpc = [t \in Tasks |-> "idle"]
  /\ top = [t \in Tasks |-> "none"]

\* A request (get_context, execute_action, a step of a run) calls extract
\* or an action and reaches its page.read().await.
BeginOperation(t) ==
  /\ tpc[t] = "idle"
  /\ \E op \in {"extract", "action"} : top' = [top EXCEPT ![t] = op]
  /\ tpc' = [tpc EXCEPT ![t] = "lock"]
  /\ UNCHANGED << readers, writer, notLockVars >>

\* RwLock::read: granted unless a write guard is held.
ReadLockGranted == ~writer

AcquireRead(t) ==
  /\ tpc[t] = "lock"
  /\ ReadLockGranted
  /\ readers' = readers + 1
  /\ tpc' = [tpc EXCEPT ![t] = AwaitsOf(t)[1]]
  /\ UNCHANGED << writer, top, notLockVars >>

\* The next await under the guard.
Advance(t) ==
  /\ \E i \in 1..(Len(AwaitsOf(t)) - 1) :
       /\ tpc[t] = AwaitsOf(t)[i]
       /\ tpc' = [tpc EXCEPT ![t] = AwaitsOf(t)[i + 1]]
  /\ UNCHANGED << readers, writer, top, notLockVars >>

\* The function returns (at its end, early, or by ?): the guard is dropped.
ReleaseRead(t) ==
  /\ InExtract(t) \/ InAction(t)
  /\ readers' = readers - 1
  /\ tpc' = [tpc EXCEPT ![t] = "idle"]
  /\ top' = [top EXCEPT ![t] = "none"]
  /\ UNCHANGED << writer, notLockVars >>

LockNext ==
  \E t \in Tasks :
    \/ BeginOperation(t)
    \/ AcquireRead(t)
    \/ Advance(t)
    \/ ReleaseRead(t)

(***************************************************************************)
(* browser/automation.rs: execute_action and the five actions, each one    *)
(* action of the model.  The page is two elements: e1, the one a semantic  *)
(* match can find, and e2, the one the css_fallback selector can match.    *)
(***************************************************************************)
Elems == {"e1", "e2"}

\* What the script of is_element_visible looks at.
Styles == {"shown", "display_none", "visibility_hidden", "opacity_0"}

DomStates ==
  [ sem : {None, Some("e1")},          \* the match of the find-element script
    css : {None, Some("e2")},          \* the match of the css_fallback selector
    built : {None, Some("e1")},        \* the match of build_css_selector's selector
    style : [Elems -> Styles],
    disabled : [Elems -> BOOLEAN] ]

BlankDom ==
  [ sem |-> None, css |-> None, built |-> None,
    style |-> [e \in Elems |-> "shown"],
    disabled |-> [e \in Elems |-> FALSE] ]

\* The ways a call into the page can go wrong during one execute_action
\* of each kind: the call named fails, or returns no value.
FindFaults == {"evaluate", "no_value", "lookup"}
CheckFaults == {"visible", "visible_no_value", "enabled", "enabled_no_value"}

Faults(tool) ==
  {"none"} \cup
    CASE tool = "click" -> FindFaults \cup CheckFaults \cup {"click"}
      [] tool = "type" ->
           FindFaults \cup CheckFaults \cup {"click", "press_key", "type_str"}
      [] tool = "scroll" -> {"scroll"}
      [] tool = "wait_for_element" -> {"timeout"}
      [] tool = "navigate" -> {"goto", "wait_nav"}

SelLogin ==
  [ role |-> "button", name |-> Some("Login"),
    description |-> None, css_fallback |-> None ]

SelLoginCss ==
  [ role |-> "button", name |-> Some("Login"),
    description |-> None, css_fallback |-> Some("#login") ]

SelTextbox ==
  [ role |-> "textbox", name |-> None,
    description |-> None, css_fallback |-> None ]

Selectors == {SelLogin, SelLoginCss, SelTextbox}

\* A u32 is its two 16-bit halves, [hi, lo]; an i32 is an integer.
Half == 2^16
U32(hi, lo) == [hi |-> hi, lo |-> lo]
I32Min == (-(2^15)) * Half

Directions == {"up", "down", "left", "right"}

\* Option<u32>: absent, and values at both ends and around i32::MAX.
ScrollAmounts ==
  { None, Some(U32(0, 0)), Some(U32(0, 1)), Some(U32(2^15 - 1, Half - 1)),
    Some(U32(2^15, 0)), Some(U32(Half - 1, Half - 1)) }

Requests ==
  { [tool |-> "click", selector |-> sel] : sel \in Selectors }
    \cup { [tool |-> "type", selector |-> sel, text |-> "alice"] : sel \in Selectors }
    \cup { [tool |-> "scroll", direction |-> d, amount |-> a] :
             d \in Directions, a \in ScrollAmounts }
    \cup { [tool |-> "wait_for_element", selector |-> sel, timeout_ms |-> t] :
             sel \in Selectors, t \in {None, Some(100)} }
    \cup { [tool |-> "navigate", url |-> "http://localhost:3000/home"] }

\* What one of the five actions hands back: the value returned and the
\* calls it made into the page, in order.
Ran(ret, calls) == [ret |-> ret, calls |-> calls]

find_element(d, selector, failing) ==
  IF failing = "evaluate" THEN Err(T("evaluate failed"))
  ELSE IF failing = "no_value"
    THEN Ok(d.built)                    \* neither null nor a string: the built selector
  ELSE IF d.sem = None
    THEN IF IsSome(selector.css_fallback) THEN Ok(d.css) ELSE Ok(None)
  ELSE IF failing = "lookup" THEN Ok(None)    \* find_element(..).await.ok()
  ELSE Ok(d.sem)

\* call_js_fn(script, false).await? and the bool read from its value:
\* the call fails, returns no value (the default is taken), or a bool.
JsFailed == [ok |-> FALSE, err |-> T("call_js_fn failed"), answer |-> "error"]
JsNoValue(default) == [ok |-> TRUE, val |-> default, answer |-> "no_value"]
JsBool(value) == [ok |-> TRUE, val |-> value, answer |-> BoolStr(value)]

\* A faulty variant of is_element_visible: the style is not looked at.
is_element_visible_unchecked(d, el, failing) ==
  IF failing = "visible" THEN JsFailed
  ELSE IF failing = "visible_no_value" THEN JsNoValue(FALSE)
  ELSE JsBool(TRUE)

is_element_visible(d, el, failing) ==
  IF failing = "visible" THEN JsFailed
  ELSE IF failing = "visible_no_value" THEN JsNoValue(FALSE)  \* unwrap_or(Bool(false))
  ELSE JsBool(d.style[el] = "shown")

is_element_enabled(d, el, failing) ==
  IF failing = "enabled" THEN JsFailed
  ELSE IF failing = "enabled_no_value" THEN JsNoValue(TRUE)   \* unwrap_or(Bool(true))
  ELSE JsBool(~d.disabled[el])

click(d, selector, failing) ==
  LET found == find_element(d, selector, failing)
      c1 == << <<"find_element">> >>
  IN
  IF ~found.ok
    THEN Ran(Ok(error_with_suggestion(T("execution_error"),
                  <<"Failed to click: ">> \o found.err,
                  T("try get_context() to verify element exists"))), c1)
  ELSE IF found.val = None
    THEN Ran(Ok(element_not_found(selector)), c1)
  ELSE
    LET el == Unwrap(found.val)
        is_visible == is_element_visible(d, el, failing)
        c2 == Append(c1, <<"is_element_visible", el, is_visible.answer>>)
        is_enabled == is_element_enabled(d, el, failing)
        c3 == Append(c2, <<"is_element_enabled", el, is_enabled.answer>>)
    IN
    IF ~is_visible.ok THEN Ran(Err(is_visible.err), c2)
    ELSE IF ~is_visible.val
      THEN Ran(Ok(element_not_visible(NameOrUnknown(selector), selector.role)), c2)
    ELSE IF ~is_enabled.ok THEN Ran(Err(is_enabled.err), c3)
    ELSE IF ~is_enabled.val
      THEN Ran(Ok(element_not_enabled(NameOrUnknown(selector))), c3)
    ELSE IF failing = "click"
      THEN Ran(Err(T("click failed")), Append(c3, <<"click_failed", el>>))
    ELSE Ran(Ok(ActionResponse_success), Append(c3, <<"click", el>>))

type_text(d, selector, text, failing) ==
  LET found == find_element(d, selector, failing)
      c1 == << <<"find_element">> >>
  IN
  IF ~found.ok
    THEN Ran(Ok(error_with_suggestion(T("execution_error"),
                  <<"Failed to type: ">> \o found.err,
                  T("try get_context() to verify element exists and is a text input"))), c1)
  ELSE IF found.val = None
    THEN Ran(Ok(element_not_found(selector)), c1)
  ELSE
    LET el == Unwrap(found.val)
        is_visible == is_element_visible(d, el, failing)
        c2 == Append(c1, <<"is_element_visible", el, is_visible.answer>>)
        is_enabled == is_element_enabled(d, el, failing)
        c3 == Append(c2, <<"is_element_enabled", el, is_enabled.answer>>)
        c4 == Append(c3, <<"click", el>>)
        c5 == c4 \o << <<"press_key", el, "End">>, <<"press_key", el, "Control+a">>,
                       <<"press_key", el, "Backspace">> >>
    IN
    IF ~is_visible.ok THEN Ran(Err(is_visible.err), c2)
    ELSE IF ~is_visible.val
      THEN Ran(Ok(element_not_visible(NameOrUnknown(selector), selector.role)), c2)
    ELSE IF ~is_enabled.ok THEN Ran(Err(is_enabled.err), c3)
    ELSE IF ~is_enabled.val
      THEN Ran(Ok(element_not_enabled(NameOrUnknown(selector))), c3)
    ELSE IF failing = "click"
      THEN Ran(Err(T("click failed")), Append(c3, <<"click_failed", el>>))
    ELSE IF failing = "press_key"
      THEN Ran(Err(T("press_key failed")), Append(c4, <<"press_key_failed", el, "End">>))
    ELSE IF failing = "type_str"
      THEN Ran(Err(T("type_str failed")), Append(c5, <<"type_str_failed", el, text>>))
    ELSE Ran(Ok(ActionResponse_success), Append(c5, <<"type_str", el, text>>))

\* amount as i32: the low 32 bits, read as two's complement.
AsI32(amount) ==
  IF amount.hi < 2^15
    THEN amount.hi * Half + amount.lo
    ELSE (amount.hi - Half) * Half + amount.lo

\* -(x) on i32: i32::MIN has no negative; a build with overflow checks
\* panics there, a build without them wraps to i32::MIN.
NegI32(x) == IF x = I32Min THEN {None, Some(x)} ELSE {Some(-x)}

\* The (x, y) of scroll, for each way the build can evaluate them: Some of
\* the pair, or None when the evaluation panics.
ScrollOffsets(direction, amount) ==
  CASE direction = "down" -> { Some(<<0, AsI32(amount)>>) }
    [] direction = "up" ->
         { IF IsSome(n) THEN Some(<<0, Unwrap(n)>>) ELSE None :
             n \in NegI32(AsI32(amount)) }
    [] direction = "right" -> { Some(<<AsI32(amount), 0>>) }
    [] direction = "left" ->
         { IF IsSome(n) THEN Some(<<Unwrap(n), 0>>) ELSE None :
             n \in NegI32(AsI32(amount)) }

Panicked == Err(T("panicked: attempt to negate with overflow"))

scroll(offsets, failing) ==
  IF offsets = None THEN Ran(Panicked, << >>)
  ELSE IF failing = "scroll"
    THEN Ran(Err(T("evaluate failed")),
             << <<"scrollBy_failed", Unwrap(offsets)[1], Unwrap(offsets)[2]>> >>)
  ELSE Ran(Ok(ActionResponse_success),
           << <<"scrollBy", Unwrap(offsets)[1], Unwrap(offsets)[2]>> >>)

DefaultTimeoutMs == 5000

wait_for_element(d, selector, timeout_ms, failing) ==
  LET timeout == IF IsSome(timeout_ms) THEN Unwrap(timeout_ms) ELSE DefaultTimeoutMs
      c1 == << <<"find_element_css">> >>
  IN
  IF failing = "timeout"
    THEN Ran(Ok(error_with_suggestion(T("timeout"),
                  <<"Element did not appear within ", ToString(timeout), "ms">>,
                  T("try increasing timeout or verify element exists"))), c1)
  ELSE IF d.built = None
    THEN Ran(Ok(error_with_suggestion(T("element_not_found"),
                  <<"Element did not appear: ", "no element found">>,
                  T("verify the selector is correct or increase timeout"))), c1)
  ELSE Ran(Ok(ActionResponse_success), c1)

navigate(url, failing) ==
  IF failing = "goto" THEN Ran(Err(T("goto failed")), << <<"goto_failed", url>> >>)
  ELSE IF failing = "wait_nav"
    THEN Ran(Err(T("navigation failed")), << <<"goto", url>>, <<"wait_failed">> >>)
  ELSE Ran(Ok(ActionResponse_success), << <<"goto", url>>, <<"wait_for_navigation">> >>)

DefaultScrollAmount == 300

\* execute_action: the ways the call on request a can go on page d.
execute_action(d, a, failing) ==
  CASE a.tool = "click" -> { click(d, a.selector, failing) }
    [] a.tool = "type" -> { type_text(d, a.selector, a.text, failing) }
    [] a.tool = "scroll" ->
         { scroll(off, failing) :
             off \in ScrollOffsets(a.direction,
                                   IF IsSome(a.amount) THEN Unwrap(a.amount)
                                   ELSE U32(0, DefaultScrollAmount)) }
    [] a.tool = "wait_for_element" ->
         { wait_for_element(d, a.selector, a.timeout_ms, failing) }
    [] a.tool = "navigate" -> { navigate(a.url, failing) }

\* What the calls made do to the page.
CallsNamed(calls, name) == { i \in DOMAIN calls : calls[i][1] = name }

ClicksAfter(calls) ==
  [ e \in Elems |->
      clicks[e] + Cardinality({ i \in CallsNamed(calls, "click") : calls[i][2] = e }) ]

TypedAfter(calls) ==
  [ e \in Elems |->
      IF \E i \in CallsNamed(calls, "type_str") : calls[i][2] = e
        THEN Some(calls[CHOOSE i \in CallsNamed(calls, "type_str") : calls[i][2] = e][3])
        ELSE typed[e] ]

BrowserStart(d) ==
  /\ dom = d
  /\ clicks = [e \in Elems |-> 0]
  /\ typed = [e \in Elems |-> None]
  /\ b_request = None
  /\ b_response = None
  /\ b_calls = << >>

\* No page in use.
BrowserIdle == BrowserStart(BlankDom)

\* BrowserAutomation::new on any page.
BrowserInit == \E d \in DomStates : BrowserStart(d)

\* One execute_action call, from its entry to its return.
ExecuteRequest(a) ==
  /\ b_request = None
  /\ \E failing \in Faults(a.tool) :
       \E ran \in execute_action(dom, a, failing) :
         /\ b_request' = Some(a)
         /\ b_response' = Some(ran.ret)
         /\ b_calls' = ran.calls
         /\ clicks' = ClicksAfter(ran.calls)
         /\ typed' = TypedAfter(ran.calls)
  /\ UNCHANGED << dom, notBrowserVars >>

Click == \E a \in Requests : a.tool = "click" /\ ExecuteRequest(a)
TypeText == \E a \in Requests : a.tool = "type" /\ ExecuteRequest(a)
Scroll == \E a \in Requests : a.tool = "scroll" /\ ExecuteRequest(a)
WaitForElement == \E a \in Requests : a.tool = "wait_for_element" /\ ExecuteRequest(a)
Navigate == \E a \in Requests : a.tool = "navigate" /\ ExecuteRequest(a)

BrowserNext ==
  \/ Click
  \/ TypeText
  \/ Scroll
  \/ WaitForElement
  \/ Navigate

(***************************************************************************)
(* agent/prompt.rs called on any context: every list of up to MaxElements  *)
(* elements built by SimplifiedElement::new, the i-th with id i.           *)
(***************************************************************************)
Roles == {"button", "textbox"}
Names == {None, Some("Login")}

ElementsAt(i) ==
  { SimplifiedElement_new(i, role, name, v) :
      role \in Roles, name \in Names, v \in BOOLEAN }

ElementLists ==
  UNION { { f \in [1..n -> UNION { ElementsAt(i) : i \in 1..MaxElements }] :
              \A i \in 1..n : f[i] \in ElementsAt(i) } : n \in 0..MaxElements }

PromptContexts ==
  { [ url |-> "http://localhost:3000", title |-> "Test Page",
      viewport |-> [ width |-> 1280, height |-> 720, scroll_x |-> 0, scroll_y |-> 0 ],
      elements |-> es ] : es \in ElementLists }

PromptTasks == {"Click the login button", "Log in"}

\* What a retry is built from: a serialized action, an error message, a suggestion.
RetryArguments ==
  { [ failed_action |-> SerializeAction(ClickAction),
      error_message |-> e,
      suggestion |-> g ] :
      e \in {T("element_not_visible"), T("Request timed out")},
      g \in {T("call scroll_down() or wait_for_element()"),
             T("Try a different approach")} }

PromptStart(c, t) ==
  /\ p_context = c
  /\ p_task = t
  /\ p_retry = None
  /\ p_prompt = None

\* No prompt asked for.
PromptIdle == PromptStart(Context(2), Task)

PromptInit == \E c \in PromptContexts, t \in PromptTasks : PromptStart(c, t)

BuildUserPrompt ==
  /\ p_prompt = None
  /\ p_prompt' = Some(build_user_prompt(p_context, p_task))
  /\ UNCHANGED << p_context, p_task, p_retry, notPromptVars >>

BuildRetryPrompt ==
  /\ p_prompt = None
  /\ \E r \in RetryArguments :
       /\ p_retry' = Some(r)
       /\ p_prompt' = Some(build_retry_prompt(p_context, p_task, r.failed_action,
                                              r.error_message, r.suggestion))
  /\ UNCHANGED << p_context, p_task, notPromptVars >>

PromptNext ==
  \/ BuildUserPrompt
  \/ BuildRetryPrompt

(***************************************************************************)
(* execute_single_step, one action per await.                              *)
(***************************************************************************)
AgentExecutionResult(yes, decided, outcome, ctx, error, llm_resp) ==
  [ success |-> yes,
    action_decided |-> decided,
    action_result |-> outcome,
    current_context |-> ctx,
    error |-> error,
    llm_response |-> llm_resp ]

SingleStart(t, p) ==
  /\ s_pc = "extract"
  /\ s_task = t
  /\ s_page = p
  /\ s_context = None
  /\ s_llm_response = None
  /\ s_action = None
  /\ s_action_result = None
  /\ s_result = None

\* No single step asked for.
SingleIdle == SingleStart(Task, 1)

SingleInit == \E t \in PromptTasks, p \in Pages : SingleStart(t, p)

\* return Ok(AgentExecutionResult {..})
SingleReturn(r) ==
  /\ s_result' = Some(Ok(r))
  /\ s_pc' = "done"

\* Step 1: the snapshot.
SingleExtract ==
  /\ s_pc = "extract"
  /\ \E r \in ExtractOutcomes(s_page) :
       IF r.ok
         THEN /\ s_context' = Some(r.val)
              /\ s_pc' = "decide"
              /\ UNCHANGED s_result
         ELSE /\ SingleReturn(AgentExecutionResult(FALSE, None, None, None,
                     Some(T("Failed to extract context: ") \o r.err), None))
              /\ UNCHANGED s_context
  /\ UNCHANGED << s_task, s_page, s_llm_response, s_action, s_action_result,
                  notSingleVars >>

\* Steps 2 and 3: the decision-oracle call and the parse of its reply.
SingleDecide ==
  /\ s_pc = "decide"
  /\ \E r \in GenerateJsonOutcomes(DecisionTexts) :
       IF ~r.ok
         THEN /\ SingleReturn(AgentExecutionResult(FALSE, None, None, s_context,
                     Some(T("LLM generation failed: ") \o r.err), None))
              /\ UNCHANGED << s_llm_response, s_action >>
         ELSE LET parsed == ParseAction(r.val) IN
              /\ s_llm_response' = Some(r.val)
              /\ IF parsed.ok
                   THEN /\ s_action' = Some(parsed.val)
                        /\ s_pc' = "execute"
                        /\ UNCHANGED s_result
                   ELSE /\ SingleReturn(AgentExecutionResult(FALSE, None, None,
                               s_context,
                               Some(T("Failed to parse LLM response as action: ")
                                      \o parsed.err),
                               Some(r.val)))
                        /\ UNCHANGED s_action
  /\ UNCHANGED << s_task, s_page, s_context, s_action_result, notSingleVars >>

\* Step 4: browser.execute_action(&action).await
SingleExecute ==
  /\ s_pc = "execute"
  /\ \E r \in ExecuteOutcomes(Unwrap(s_action)) :
       IF r.ok
         THEN /\ s_action_result' = Some(r.val)
              /\ IF r.val.success THEN s_page' \in Pages ELSE s_page' = s_page
              /\ s_pc' = "update"
              /\ UNCHANGED s_result
         ELSE /\ SingleReturn(AgentExecutionResult(FALSE, s_action, None, s_context,
                     Some(T("Action execution failed: ") \o r.err), s_llm_response))
              /\ UNCHANGED << s_action_result, s_page >>
  /\ UNCHANGED << s_task, s_context, s_llm_response, s_action, notSingleVars >>

\* Step 5: the snapshot after the action (.ok()), and the last return.
SingleUpdate ==
  /\ s_pc = "update"
  /\ \E r \in ExtractOutcomes(s_page) :
       SingleReturn(AgentExecutionResult(Unwrap(s_action_result).success, s_action,
                      s_action_result, (IF r.ok THEN Some(r.val) ELSE None),
                      None, s_llm_response))
  /\ UNCHANGED << s_task, s_page, s_context, s_llm_response, s_action,
                  s_action_result, notSingleVars >>

SingleNext ==
  \/ SingleExtract
  \/ SingleDecide
  \/ SingleExecute
  \/ SingleUpdate

(***************************************************************************)
(* auth/jwt.rs: Claims and JwtHandler over the jsonwebtoken defaults       *)
(* (HS256, exp required and validated with a leeway).  A u64 is            *)
(* [k, v], the number k * 2^64 + v, with k = 0 and v >= 0 for the values   *)
(* near zero and k = 1 and v < 0 for those just under 2^64.                *)
(***************************************************************************)
U64(n) == [k |-> 0, v |-> n]
U64Max == [k |-> 1, v |-> -1]

U64Less(a, b) == a.k < b.k \/ (a.k = b.k /\ a.v < b.v)

\* a + b on u64, for each way the build can evaluate it: Some of the sum,
\* or None when the addition panics.  Past 2^64 a build with overflow
\* checks panics and one without wraps.
U64Add(a, b) ==
  LET k == a.k + b.k
      v == a.v + b.v
  IN IF k = 0 \/ (k = 1 /\ v < 0)
       THEN { Some([k |-> k, v |-> v]) }
       ELSE { None, Some([k |-> k - 1, v |-> v]) }

\* Validation::default().leeway
Leeway == 60
Hour == 3600

\* The clock when the first call is made, and the waits between calls.
SomeTime == 100 * Leeway
Waits == {1, Leeway + 1, Hour}

Secrets == {"test_secret", "other_secret"}
Usernames == {None, Some("testuser")}
Expirations == {U64(0), U64(1), U64(Hour), U64Max}

\* Claims::new at time now, for each way the build can evaluate now + expiration_seconds.
Claims_new(user_id, username, expiration_seconds, now) ==
  { IF IsSome(e)
      THEN Some([ sub |-> user_id, username |-> username,
                  iat |-> U64(now), exp |-> Unwrap(e) ])
      ELSE None :
    e \in U64Add(U64(now), expiration_seconds) }

\* A faulty variant of is_expired: the second of expiry counts as expired.
is_expired_inclusive(claims, now) == ~U64Less(U64(now), claims.exp)

\* Claims::is_expired at time now
is_expired(claims, now) == U64Less(claims.exp, U64(now))

\* serde_json of Claims, and its inverse.
SerializeClaims(claims) ==
  <<"{\"sub\":\"", claims.sub, "\",\"username\":">>
    \o JsonOptStr(claims.username)
    \o <<",\"iat\":", claims.iat, ",\"exp\":", claims.exp, "}">>

ParseClaims(text) ==
  LET named == text[4] = "\""
      at == IF named THEN 7 ELSE 5
  IN [ sub |-> text[2],
       username |-> IF named THEN Some(text[5]) ELSE None,
       iat |-> text[at + 1],
       exp |-> text[at + 3] ]

JwtHeader == T("{\"typ\":\"JWT\",\"alg\":\"HS256\"}")

\* HMAC-SHA256 of the signing input under the secret.
Sign(message, secret) == <<"HS256", secret, message>>

\* jsonwebtoken::encode(&Header::default(), claims, key): header.payload.signature
jwt_encode(claims, secret) ==
  LET message == <<JwtHeader, SerializeClaims(claims)>> IN
  Ok(<<message[1], message[2], Sign(message, secret)>>)

\* jsonwebtoken::decode(token, key, &Validation::default()) at time now:
\* the signature, then the claims, then exp against now - leeway.
jwt_decode(token, secret, now) ==
  IF token[3] # Sign(<<token[1], token[2]>>, secret)
    THEN Err(T("InvalidSignature"))
  ELSE LET claims == ParseClaims(token[2]) IN
    IF U64Less(claims.exp, U64(now - Leeway))
      THEN Err(T("ExpiredSignature"))
      ELSE Ok(claims)

JwtStart(now) ==
  /\ j_now = now
  /\ j_waits = 0
  /\ j_claims = None
  /\ j_made = [by |-> "none"]
  /\ j_token = None
  /\ j_decoded = None

\* No claims asked for.
JwtIdle == JwtStart(0)

JwtInit == JwtStart(SomeTime)

\* Claims::new(user_id, username, expiration_seconds)
NewClaims ==
  /\ j_made.by = "none"
  /\ \E username \in Usernames, expiration_seconds \in Expirations :
       \E c \in Claims_new("user123", username, expiration_seconds, j_now) :
         /\ j_claims' = c
         /\ j_made' = [ by |-> IF IsSome(c) THEN "new" ELSE "panic",
                        at |-> j_now, expiration_seconds |-> expiration_seconds ]
  /\ UNCHANGED << j_now, j_waits, j_token, j_decoded, notJwtVars >>

\* Claims { sub, username, iat, exp }: the fields are public.
LiteralClaims ==
  /\ j_made.by = "none"
  /\ \E username \in Usernames, exp \in {0, j_now - Hour, j_now - 1, j_now + Hour} :
       j_claims' = Some([ sub |-> "user123", username |-> username,
                          iat |-> U64(0), exp |-> U64(exp) ])
  /\ j_made' = [by |-> "literal"]
  /\ UNCHANGED << j_now, j_waits, j_token, j_decoded, notJwtVars >>

\* JwtHandler::new(secret).encode(&claims)
Encode ==
  /\ IsSome(j_claims)
  /\ j_token = None
  /\ \E secret \in Secrets :
       j_token' = Some([ secret |-> secret,
                         ret |-> jwt_encode(Unwrap(j_claims), secret) ])
  /\ UNCHANGED << j_now, j_waits, j_claims, j_made, j_decoded, notJwtVars >>

\* JwtHandler::new(secret).decode(&token)
Decode ==
  /\ IsSome(j_token)
  /\ j_decoded = None
  /\ \E secret \in Secrets :
       j_decoded' = Some([ secret |-> secret, at |-> j_now,
                           ret |-> jwt_decode(Unwrap(j_token).ret.val, secret, j_now) ])
  /\ UNCHANGED << j_now, j_waits, j_claims, j_made, j_token, notJwtVars >>

\* Time passes between two calls.
Wait ==
  /\ j_waits < MaxWaits
  /\ j_decoded = None
  /\ \E w \in Waits : j_now' = j_now + w
  /\ j_waits' = j_waits + 1
  /\ UNCHANGED << j_claims, j_made, j_token, j_decoded, notJwtVars >>

JwtNext ==
  \/ NewClaims
  \/ LiteralClaims
  \/ Encode
  \/ Decode
  \/ Wait

(***************************************************************************)
(* session/redis_store.rs: RedisSessionStore over one Redis server.  The   *)
(* server is its string keys "session:{id}" and its set keys               *)
(* "user_sessions:{user}", each with the time it expires at; a key is gone *)
(* once the clock reaches that time.                                       *)
(***************************************************************************)
SessionIds == {"s1", "s2", "s3"}
UserIds == {"u1"}

\* The sessions a caller saves: an id names one session, made with its user
\* (Session::new, with_user_id); two of them belong to one user, one to none.
Sessions ==
  { [ id |-> id, user_id |-> IF id = "s3" THEN None ELSE Some("u1"),
      browser_info |-> "http://localhost" ] : id \in SessionIds }

\* serde_json::to_string(session) and serde_json::from_str::<Session>
SerializeSession(session) ==
  <<"{\"id\":\"", session.id, "\",\"user_id\":">>
    \o JsonOptStr(session.user_id)
    \o <<",\"browser_info\":{\"initial_url\":\"", session.browser_info, "\"}}">>

ParseSession(json) ==
  LET has_user == json[4] = "\""
      at == IF has_user THEN 7 ELSE 5
  IN [ id |-> json[2],
       user_id |-> IF has_user THEN Some(json[5]) ELSE None,
       browser_info |-> json[at + 1] ]

NoSet == [members |-> {}, expires_at |-> None]

\* SETEX key seconds value: an error unless seconds is positive.
redis_set_ex(keys, now, id, value, seconds) ==
  IF seconds <= 0
    THEN Err(T("ERR invalid expire time in 'setex' command"))
    ELSE Ok([keys EXCEPT ![id] = Some([value |-> value, expires_at |-> now + seconds])])

\* SADD key member, then EXPIRE key seconds
redis_sadd(index, user, id) ==
  [index EXCEPT ![user].members = @ \cup {id}]

redis_expire_set(index, now, user, seconds) ==
  IF index[user].members = {} THEN index
  ELSE IF seconds <= 0 THEN [index EXCEPT ![user] = NoSet]
  ELSE [index EXCEPT ![user].expires_at = Some(now + seconds)]

\* SREM key member: the set is removed with its last member.
redis_srem(index, user, id) ==
  IF index[user].members \ {id} = {} THEN [index EXCEPT ![user] = NoSet]
  ELSE [index EXCEPT ![user].members = @ \ {id}]

\* EXPIRE on a string key
redis_expire(keys, now, id, seconds) ==
  IF keys[id] = None THEN keys
  ELSE IF seconds <= 0 THEN [keys EXCEPT ![id] = None]
  ELSE [keys EXCEPT ![id] = Some([Unwrap(@) EXCEPT !.expires_at = now + seconds])]

\* The keys left when the clock shows now.
KeysAt(keys, now) ==
  [ id \in SessionIds |->
      IF IsSome(keys[id]) /\ Unwrap(keys[id]).expires_at <= now THEN None ELSE keys[id] ]

IndexAt(index, now) ==
  [ u \in UserIds |->
      IF IsSome(index[u].expires_at) /\ Unwrap(index[u].expires_at) <= now
        THEN NoSet ELSE index[u] ]

\* RedisSessionStore::get
store_get(keys, session_id) ==
  IF IsSome(keys[session_id])
    THEN Ok(Some(ParseSession(Unwrap(keys[session_id]).value)))
    ELSE Ok(None)

\* RedisSessionStore::list_user_sessions
list_user_sessions(index, user_id) == Ok(index[user_id].members)

\* RedisSessionStore::save: the keys and the index it leaves, and its return.
store_save(keys, index, now, seconds, session) ==
  LET set == redis_set_ex(keys, now, session.id, SerializeSession(session), seconds) IN
  IF ~set.ok THEN [keys |-> keys, index |-> index, ret |-> Err(set.err)]
  ELSE IF IsSome(session.user_id)
    THEN [ keys |-> set.val,
           index |-> redis_expire_set(redis_sadd(index, Unwrap(session.user_id), session.id),
                                      now, Unwrap(session.user_id), seconds),
           ret |-> Ok("unit") ]
    ELSE [keys |-> set.val, index |-> index, ret |-> Ok("unit")]

\* A delete that leaves the user's index alone.
store_delete_keeping_index(keys, index, session_id) ==
  [ keys |-> [keys EXCEPT ![session_id] = None],
    found |-> store_get(keys, session_id).val,
    index |-> index,
    ret |-> Ok("unit") ]

\* RedisSessionStore::delete; found is the session its get returned.
store_delete(keys, index, session_id) ==
  LET found == store_get(keys, session_id).val IN
  [ keys |-> [keys EXCEPT ![session_id] = None],
    found |-> found,
    index |-> IF IsSome(found) /\ IsSome(Unwrap(found).user_id)
                THEN redis_srem(index, Unwrap(Unwrap(found).user_id), session_id)
                ELSE index,
    ret |-> Ok("unit") ]

StoreStart(seconds) ==
  /\ r_now = 0
  /\ r_expiration_seconds = seconds
  /\ r_keys = [id \in SessionIds |-> None]
  /\ r_index = [u \in UserIds |-> NoSet]
  /\ r_last = [op |-> "none"]
  /\ r_steps = 0

\* No store opened.
StoreIdle == StoreStart(0)

\* RedisSessionStore::new(redis_url, expiration_seconds) on an empty server.
StoreInit == \E seconds \in 0..MaxExpiration : StoreStart(seconds)

StoreStep ==
  /\ r_steps < MaxStoreSteps
  /\ r_steps' = r_steps + 1
  /\ UNCHANGED << r_expiration_seconds, notStoreVars >>

Save ==
  /\ StoreStep
  /\ \E session \in Sessions :
       LET done == store_save(r_keys, r_index, r_now, r_expiration_seconds, session) IN
       /\ r_keys' = done.keys
       /\ r_index' = done.index
       /\ r_last' = [op |-> "save", session |-> session, ret |-> done.ret]
  /\ UNCHANGED r_now

Get ==
  /\ StoreStep
  /\ \E id \in SessionIds :
       r_last' = [op |-> "get", id |-> id, ret |-> store_get(r_keys, id)]
  /\ UNCHANGED << r_now, r_keys, r_index >>

Delete ==
  /\ StoreStep
  /\ \E id \in SessionIds :
       LET done == store_delete(r_keys, r_index, id) IN
       /\ r_keys' = done.keys
       /\ r_index' = done.index
       /\ r_last' = [op |-> "delete", id |-> id, found |-> done.found,
                     ret |-> done.ret]
  /\ UNCHANGED r_now

UpdateActivity ==
  /\ StoreStep
  /\ \E id \in SessionIds :
       /\ r_keys' = redis_expire(r_keys, r_now, id, r_expiration_seconds)
       /\ r_last' = [op |-> "update_activity", id |-> id, ret |-> Ok("unit")]
  /\ UNCHANGED << r_now, r_index >>

ListUserSessions ==
  /\ StoreStep
  /\ \E u \in UserIds :
       r_last' = [op |-> "list_user_sessions", user_id |-> u,
                  ret |-> list_user_sessions(r_index, u)]
  /\ UNCHANGED << r_now, r_keys, r_index >>

\* A second passes; the server drops the keys that expire.
StoreWait ==
  /\ StoreStep
  /\ r_now' = r_now + 1
  /\ r_keys' = KeysAt(r_keys, r_now + 1)
  /\ r_index' = IndexAt(r_index, r_now + 1)
  /\ r_last' = [op |-> "wait"]

StoreNext ==
  \/ Save
  \/ Get
  \/ Delete
  \/ UpdateActivity
  \/ ListUserSessions
  \/ StoreWait

(***************************************************************************)
(* try_action_with_retry, the arm for an execution that returned           *)
(* success = false.  The arm reads an ActionResponse; here it is any the   *)
(* type has, each of error, reason and suggestion present or absent.       *)
(***************************************************************************)
OptionalTexts(text) == {None, Some(T(text))}

FailedResponses ==
  { [ success |-> FALSE, error |-> e, reason |-> r, suggestion |-> s, details |-> None ] :
      e \in OptionalTexts("element_not_found"),
      r \in OptionalTexts("Could not find button with name 'Login'"),
      s \in OptionalTexts("try get_context() to see available elements") }

\* What the arm does: the prompt of the next attempt, or the Err it returns.
on_failed_action(resp, a, ctx, task, attempt, max_retries) ==
  IF attempt < max_retries
    THEN Ok(build_retry_prompt(ctx, task, SerializeAction(a),
                               error_msg(resp), suggestion_or_default(resp)))
    ELSE Err(<<"Action failed after ", ToString(max_retries), " retries: ">>
               \o error_msg(resp))

FeedbackStart(resp, a, p, attempt, max_retries) ==
  /\ f_result = resp
  /\ f_action = a
  /\ f_context = Context(p)
  /\ f_retry = attempt
  /\ f_max_retries = max_retries
  /\ f_next = None

\* No execution has failed.
FeedbackIdle == FeedbackStart(element_not_found(ClickAction.selector), ClickAction, 1, 0, 0)

FeedbackInit ==
  \E resp \in FailedResponses, a \in {ClickAction, ScrollAction}, p \in Pages,
     max_retries \in 0..MaxRetriesBound :
    \E attempt \in 0..max_retries :
      FeedbackStart(resp, a, p, attempt, max_retries)

HandleFailedAction ==
  /\ f_next = None
  /\ f_next' = Some(on_failed_action(f_result, f_action, f_context, Task,
                                     f_retry, f_max_retries))
  /\ UNCHANGED << f_result, f_action, f_context, f_retry, f_max_retries,
                  notFeedbackVars >>

FeedbackNext == HandleFailedAction

(***************************************************************************)
(* agent/llm_client.rs: one generate_json call, one action per await.      *)
(***************************************************************************)
MaxChoices == 2

Models == {"gpt-4", "gpt-4o-mini"}
UserMessages == {T("Current Page State: ..."), T("Has the task been completed?"), T("")}

\* What message.content of a choice can be.
Contents == {None, Some(T("{\"tool\":\"click\"}")), Some(T("I am not sure")), Some(T(""))}

Choices == UNION { [1..n -> [content : Contents]] : n \in 0..MaxChoices }

\* What client.chat().create(request).await can return.
CreateOutcomes ==
  { Ok([choices |-> c]) : c \in Choices } \cup { Err(T("http error: connection refused")) }

CreateChatCompletionRequest(model, system_prompt, user_message) ==
  [ model |-> model,
    messages |-> << [role |-> "system", content |-> system_prompt],
                    [role |-> "user", content |-> user_message] >>,
    temperature |-> "0.1",
    max_tokens |-> 500,
    response_format |-> "json_object" ]

\* A faulty variant of first_content: the first choice that has a content.
first_content_of_any_choice(response) ==
  IF ~response.ok THEN Err(response.err)
  ELSE
    LET choices == response.val.choices
        with == { i \in DOMAIN choices : IsSome(choices[i].content) }
    IN IF with = {} THEN Err(T("No response from LLM"))
       ELSE Ok(Unwrap(choices[CHOOSE i \in with : \A k \in with : i <= k].content))

\* `create(request).await?` and the content taken from the response:
\* choices.first().and_then(|c| c.message.content.clone()).ok_or_else(..)?
first_content(response) ==
  IF ~response.ok THEN Err(response.err)
  ELSE
    LET choices == response.val.choices IN
    IF choices = << >> THEN Err(T("No response from LLM"))
    ELSE IF Head(choices).content = None THEN Err(T("No response from LLM"))
    ELSE Ok(Unwrap(Head(choices).content))

LlmStart(model, user) ==
  /\ l_pc = "call"
  /\ l_model = model
  /\ l_user = user
  /\ l_requests = << >>
  /\ l_response = None
  /\ l_result = None

\* No call made.
LlmIdle == LlmStart("gpt-4", T(""))

\* LLMClient::new with OPENAI_MODEL set or not, and the message of the call.
LlmInit == \E model \in Models, user \in UserMessages : LlmStart(model, user)

\* The request is built and handed to the client.
SendRequest ==
  /\ l_pc = "call"
  /\ l_pc' = "awaiting"
  /\ l_requests' =
       Append(l_requests, CreateChatCompletionRequest(l_model, build_system_prompt, l_user))
  /\ UNCHANGED << l_model, l_user, l_response, l_result, notLlmVars >>

\* The client's call returns, and generate_json with it.
ReceiveResponse ==
  /\ l_pc = "awaiting"
  /\ \E response \in CreateOutcomes :
       /\ l_response' = Some(response)
       /\ l_result' = Some(first_content(response))
  /\ l_pc' = "done"
  /\ UNCHANGED << l_model, l_user, l_requests, notLlmVars >>

LlmNext ==
  \/ SendRequest
  \/ ReceiveResponse

(***************************************************************************)
(* session/manager.rs: the registry of sessions.  create_session awaits    *)
(* the launch of its browser between making the session and storing it;    *)
(* every other operation is one access to the map.                         *)
(***************************************************************************)
MaxIds == 2
MaxClock == 1

\* Uuid::new_v4: the n-th id issued is n.  Id 0 is never issued.
ManagerIds == 1..MaxIds
AnyIds == 0..MaxIds

InitialUrls == {"http://localhost:3000"}

\* Where a navigate action on a session's page can lead.
PageUrls == InitialUrls \cup {"http://localhost:3000/home"}

\* Session::new
Session_new(sid, initial_url, now) ==
  [ id |-> sid, user_id |-> None, created_at |-> now, last_activity |-> now,
    browser_info |-> [ initial_url |-> initial_url, current_url |-> initial_url,
                       viewport_width |-> 1280, viewport_height |-> 720 ] ]

\* Session::update_activity
Session_update_activity(s, now) == [s EXCEPT !.last_activity = now]

SessionData(s) == [session |-> s, browser |-> s.id]

\* The keys of the map.
Keys(reg) == { sid \in DOMAIN reg : reg[sid] # None }

NotFound == Err(T("Session not found"))

\* What an operation hands back: the map after it and the value returned.
Did(reg, ret) == [sessions |-> reg, ret |-> ret]

\* A faulty variant of create_session: the session is stored before its browser is up.
create_session_stored_first(reg, s, launched) ==
  IF launched.ok
    THEN Did([reg EXCEPT ![s.id] = Some(SessionData(s))], Ok(s.id))
    ELSE Did([reg EXCEPT ![s.id] = Some(SessionData(s))], Err(launched.err))

\* create_session from the return of BrowserAutomation::new on.
create_session(reg, s, launched) ==
  IF launched.ok
    THEN Did([reg EXCEPT ![s.id] = Some(SessionData(s))], Ok(s.id))
    ELSE Did(reg, Err(launched.err))

get_browser(reg, sid) ==
  IF sid \notin Keys(reg) THEN Did(reg, NotFound)
  ELSE Did(reg, Ok(Unwrap(reg[sid]).browser))

get_session(reg, sid) ==
  IF sid \notin Keys(reg) THEN Did(reg, NotFound)
  ELSE Did(reg, Ok(Unwrap(reg[sid]).session))

update_activity(reg, sid, now) ==
  IF sid \notin Keys(reg) THEN Did(reg, NotFound)
  ELSE Did([reg EXCEPT ![sid] =
              Some([Unwrap(reg[sid]) EXCEPT
                      !.session = Session_update_activity(@, now)])],
           Ok("unit"))

\* A faulty variant of remove_session: the whole map is cleared.
remove_session_clearing(reg, sid) ==
  IF sid \notin Keys(reg) THEN Did(reg, NotFound)
  ELSE Did([k \in DOMAIN reg |-> None], Ok("unit"))

remove_session(reg, sid) ==
  IF sid \notin Keys(reg) THEN Did(reg, NotFound)
  ELSE Did([reg EXCEPT ![sid] = None], Ok("unit"))

\* The orders in which the map's iterator can yield its keys.
KeyOrders(reg) ==
  { f \in [1..Cardinality(Keys(reg)) -> Keys(reg)] :
      \A i, k \in DOMAIN f : i # k => f[i] # f[k] }

list_sessions(reg) == KeyOrders(reg)

session_count(reg) == Cardinality(Keys(reg))

ManagerStart ==
  /\ m_sessions = [sid \in AnyIds |-> None]
  /\ m_pages = [sid \in AnyIds |-> None]
  /\ m_pending = {}
  /\ m_next_id = 1
  /\ m_last = [op |-> "new"]

\* No manager in use.
ManagerIdle == ManagerStart /\ m_now = 0

\* SessionManager::new at any time.
ManagerInit == ManagerStart /\ m_now \in 0..MaxClock

Returns(op, sid, did) ==
  /\ m_sessions' = did.sessions
  /\ m_last' = [op |-> op, id |-> sid, ret |-> did.ret]

\* create_session up to its await: the session is made, the browser asked for.
BeginCreateSession ==
  /\ m_next_id <= MaxIds
  /\ \E url \in InitialUrls :
       m_pending' = m_pending \cup {Session_new(m_next_id, url, m_now)}
  /\ m_next_id' = m_next_id + 1
  /\ m_last' = [op |-> "create_session_called", id |-> m_next_id]
  /\ UNCHANGED << m_sessions, m_pages, m_now, notManagerVars >>

\* BrowserAutomation::new returns, and create_session with it.
FinishCreateSession ==
  \E s \in m_pending :
    \E launched \in {Ok(s.id), Err(T("Failed to launch browser"))} :
      /\ Returns("create_session", s.id, create_session(m_sessions, s, launched))
      /\ m_pages' =
           IF launched.ok
             THEN [m_pages EXCEPT ![s.id] =
                     Some([url |-> s.browser_info.initial_url])]
             ELSE m_pages
      /\ m_pending' = m_pending \ {s}
      /\ UNCHANGED << m_next_id, m_now, notManagerVars >>

GetBrowser ==
  \E sid \in AnyIds :
    /\ Returns("get_browser", sid, get_browser(m_sessions, sid))
    /\ UNCHANGED << m_pages, m_pending, m_next_id, m_now, notManagerVars >>

GetSession ==
  \E sid \in AnyIds :
    /\ Returns("get_session", sid, get_session(m_sessions, sid))
    /\ UNCHANGED << m_pages, m_pending, m_next_id, m_now, notManagerVars >>

ManagerUpdateActivity ==
  \E sid \in AnyIds :
    /\ Returns("update_activity", sid, update_activity(m_sessions, sid, m_now))
    /\ UNCHANGED << m_pages, m_pending, m_next_id, m_now, notManagerVars >>

\* remove_session; the browser goes with the entry unless a request under
\* way still holds it.
RemoveSession ==
  \E sid \in AnyIds :
    LET did == remove_session(m_sessions, sid) IN
    /\ Returns("remove_session", sid, did)
    /\ \E dropped \in BOOLEAN :
         m_pages' = [ k \in AnyIds |->
                        IF dropped /\ did.ret.ok /\ k = sid THEN None ELSE m_pages[k] ]
    /\ UNCHANGED << m_pending, m_next_id, m_now, notManagerVars >>

ManagerListSessions ==
  /\ \E order \in list_sessions(m_sessions) :
       m_last' = [op |-> "list_sessions", id |-> 0, ret |-> order]
  /\ UNCHANGED << m_sessions, m_pages, m_pending, m_next_id, m_now, notManagerVars >>

SessionCount ==
  /\ m_last' = [op |-> "session_count", id |-> 0, ret |-> session_count(m_sessions)]
  /\ UNCHANGED << m_sessions, m_pages, m_pending, m_next_id, m_now, notManagerVars >>

\* A request on a session: the browser got from the map executes a
\* navigate action on its page.
ActOnSession ==
  \E sid \in AnyIds :
    LET got == get_browser(m_sessions, sid) IN
    /\ got.ret.ok
    /\ m_pages[got.ret.val] # None
    /\ \E url \in PageUrls \ {Unwrap(m_pages[got.ret.val]).url} :
         m_pages' = [m_pages EXCEPT ![got.ret.val] = Some([url |-> url])]
    /\ m_last' = [op |-> "execute_action", id |-> sid, ret |-> Ok(ActionResponse_success)]
    /\ UNCHANGED << m_sessions, m_pending, m_next_id, m_now, notManagerVars >>

\* A request on a session: its page is read.
SnapshotSession ==
  \E sid \in AnyIds :
    LET got == get_browser(m_sessions, sid) IN
    /\ got.ret.ok
    /\ m_pages[got.ret.val] # None
    /\ m_last' = [op |-> "get_context", id |-> sid, ret |-> Ok(Unwrap(m_pages[got.ret.val]))]
    /\ UNCHANGED << m_sessions, m_pages, m_pending, m_next_id, m_now, notManagerVars >>

ManagerTick ==
  /\ m_now < MaxClock
  /\ m_now' = m_now + 1
  /\ m_last' = [op |-> "tick"]
  /\ UNCHANGED << m_sessions, m_pages, m_pending, m_next_id, notManagerVars >>

ManagerNext ==
  \/ BeginCreateSession
  \/ FinishCreateSession
  \/ GetBrowser
  \/ GetSession
  \/ ManagerUpdateActivity
  \/ RemoveSession
  \/ ManagerListSessions
  \/ SessionCount
  \/ ActOnSession
  \/ SnapshotSession
  \/ ManagerTick

\* Everything but one part of the program at rest.
Idle(part) ==
  /\ part = "run" \/ RunIdle
  /\ LockInit
  /\ part = "browser" \/ BrowserIdle
  /\ part = "prompt" \/ PromptIdle
  /\ part = "single" \/ SingleIdle
  /\ part = "jwt" \/ JwtIdle
  /\ part = "store" \/ StoreIdle
  /\ part = "feedback" \/ FeedbackIdle
  /\ part = "llm" \/ LlmIdle
  /\ part = "manager" \/ ManagerIdle

Init == RunInit /\ Idle("run")

InitBrowser == BrowserInit /\ Idle("browser")

InitPrompt == PromptInit /\ Idle("prompt")

InitSingle == SingleInit /\ Idle("single")

InitJwt == JwtInit /\ Idle("jwt")

InitStore == StoreInit /\ Idle("store")

InitFeedback == FeedbackInit /\ Idle("feedback")

InitLlm == LlmInit /\ Idle("llm")

InitManager == ManagerInit /\ Idle("manager")

Next == RunNext

\* One run of execute_multi_step.
Spec == Init /\ [][Next]_vars

\* The requests of one session contending for its page.
SpecLock == Init /\ [][LockNext]_vars

\* One execute_action call on any page.
SpecBrowser == InitBrowser /\ [][BrowserNext]_vars

\* One call of a prompt builder on any context.
SpecPrompt == InitPrompt /\ [][PromptNext]_vars

\* One call of execute_single_step.
SpecSingle == InitSingle /\ [][SingleNext]_vars

\* Claims made, encoded and decoded as time passes.
SpecJwt == InitJwt /\ [][JwtNext]_vars

\* The retry loop's handling of one failed execution.
SpecFeedback == InitFeedback /\ [][FeedbackNext]_vars

\* One call of LLMClient::generate_json.
SpecLlm == InitLlm /\ [][LlmNext]_vars

\* The operations of one SessionManager and the requests on its sessions.
SpecManager == InitManager /\ [][ManagerNext]_vars

\* The operations of one RedisSessionStore as time passes.
SpecStore == InitStore /\ [][StoreNext]_vars

\* One run in which every call the run awaits returns: each await of the
\* run is an action of Next, so a pending await is eventually resumed.
SpecFair == Init /\ [][Next]_vars /\ WF_vars(Next)


(***************************************************************************)
(* Properties.                                                             *)
(***************************************************************************)
Returned == IsSome(result)
Res == Unwrap(result)

DecideEvents == {"llm_err", "parse_fail", "parsed"}
ExecEvents == {"rejected", "hard_err", "success"}

\* The number of decision-oracle calls, and of executions, of the step.
RECURSIVE CountIn(_, _)
CountIn(s, kinds) ==
  IF s = << >> THEN 0
  ELSE (IF Head(s) \in kinds THEN 1 ELSE 0) + CountIn(Tail(s), kinds)

StepDecideCalls == CountIn(log, DecideEvents)
StepExecCalls == CountIn(log, ExecEvents)

\* C1: every result returned by execute_multi_step has
\* steps_taken <= max_steps and as many recorded steps as steps_taken,
\* whichever return statement built it.
C1_StepsTakenBounded ==
  Returned =>
    /\ Res.steps_taken <= Res.max_steps
    /\ Len(Res.steps) = Res.steps_taken

C1_Witness ==
  /\ Returned
  /\ exit_path = "budget"
  /\ Res.steps_taken = MaxStepsBound

\* C2: execute_multi_step never returns Err to its caller: when the run is
\* over there is a result, and unless the task completed the result has
\* task_completed = false, an error string and the steps recorded so far.
C2_NeverFaults ==
  pc = "done" =>
    /\ fault = None
    /\ Returned
    /\ (exit_path # "completed" =>
          /\ ~Res.task_completed
          /\ IsSome(Res.error)
          /\ Res.steps = steps)

AllRepliesUnparseable ==
  /\ StepDecideCalls > 0
  /\ \A i \in DOMAIN log : log[i] \in DecideEvents => log[i] = "parse_fail"

\* C3: a step whose every decision reply is unparseable makes
\* max_retries_per_step + 1 decision-oracle calls and no execution, then
\* fails, and the run ends with task_completed = false.
C3_UnparseableStepFails ==
  AllRepliesUnparseable =>
    /\ StepExecCalls = 0
    /\ \/ /\ pc = "decide"        \* attempts remain: the step is not over
          /\ StepDecideCalls <= max_retries_per_step
       \/ /\ pc = "done"
          /\ StepDecideCalls = max_retries_per_step + 1
          /\ Returned
          /\ ~Res.task_completed
          /\ IsSome(Res.error)

C3_Witness ==
  /\ AllRepliesUnparseable
  /\ pc = "done"
  /\ StepDecideCalls = MaxRetriesBound + 1

ReplyUnparseable(o) ==
  /\ IsSome(o)
  /\ Unwrap(o).ok
  /\ ~ParseCompletion(Unwrap(o).val).ok

ReplyCompleted(o) ==
  /\ IsSome(o)
  /\ Unwrap(o).ok
  /\ ParseCompletion(Unwrap(o).val).ok
  /\ ParseCompletion(Unwrap(o).val).val.completed

\* C4: a completion reply that does not parse as {completed, reason} never
\* gives task_completed = true: the run goes on to the next step (or to the
\* budget result after the last step), and task_completed = true is only
\* returned after a reply that parsed with completed = true.
C4_UnparseableNeverCompletes ==
  /\ [](Returned /\ Res.task_completed => ReplyCompleted(comp_reply))
  /\ [][ (pc = "complete" /\ pc' # "complete" /\ ReplyUnparseable(comp_reply')) =>
           /\ result' = None
           /\ fault' = None
           /\ steps' = steps
           /\ step_num' = step_num + 1
           /\ pc' = (IF step_num < max_steps THEN "extract" ELSE "final") ]_vars

C4_Witness ==
  /\ ReplyUnparseable(comp_reply)
  /\ pc = "extract"
  /\ step_num = 2

\* C5: in every result, retries_count is the sum over the steps the run
\* attempted of the retries consumed in each.
C5_RetriesCountIsSum ==
  Returned => Res.retries_count = retries_performed

\* C6: for one session, no context snapshot is in progress while an action
\* execution is.
C6_SnapshotActionExclusive ==
  \A t1, t2 \in Tasks : ~(InExtract(t1) /\ InAction(t2))

RejectedWithSuggestion ==
  /\ log # << >>
  /\ Last(log) = "rejected"
  /\ IsSome(last_attempt)
  /\ IsSome(Unwrap(last_attempt).outcome.val.suggestion)

\* C7: after an execution that returned success = false with suggestion S,
\* when attempts remain, the prompt of the next decision-oracle call contains
\* S, the serialized failed action and the error message.
C7_RetryPromptHasSuggestion ==
  (pc = "decide" /\ RejectedWithSuggestion) =>
    LET a == Unwrap(last_attempt) IN
    /\ Contains(current_prompt, Unwrap(a.outcome.val.suggestion))
    /\ Contains(current_prompt, SerializeAction(a.action))
    /\ Contains(current_prompt, error_msg(a.outcome.val))

C7_Witness ==
  /\ pc = "decide"
  /\ RejectedWithSuggestion
  /\ retry = 1

CleanFirstStep ==
  /\ step_num = 1
  /\ ReplyCompleted(comp_reply)
  /\ \A i \in DOMAIN log : log[i] \in {"parsed", "success"}

\* C8: when every decision reply parsed to an action that executed with
\* success = true and the completion oracle said completed = true on step 1,
\* the run returns task_completed = true, steps_taken = 1, retries_count = 0,
\* one recorded step and no error.
C8_CleanRun ==
  CleanFirstStep =>
    /\ pc = "done"
    /\ Returned
    /\ Res.task_completed
    /\ Res.steps_taken = 1
    /\ Res.retries_count = 0
    /\ Len(Res.steps) = 1
    /\ Res.error = None

C8_Witness ==
  /\ CleanFirstStep
  /\ Returned

\* C9: the history is append-only: every step of the run leaves the entries
\* recorded so far as they are, the i-th entry has step_number i, and the
\* result returned holds the history as it then is.
C9_HistoryAppendOnly ==
  [][ /\ IsPrefix(steps, steps')
      /\ \A i \in DOMAIN steps' : steps'[i].step_number = i
      /\ (IsSome(result') => Unwrap(result').steps = steps') ]_vars

C9_Witness ==
  /\ Returned
  /\ exit_path = "step_failed"
  /\ Len(Res.steps) >= 1

OracleCallFailed == log # << >> /\ Last(log) = "llm_err"

\* C10: a failed decision-oracle call is not retried: the run is over with
\* task_completed = false and an error, and no decision-oracle call or
\* execution follows it, also when retry attempts remain.
C10_OracleFailureIsFatal ==
  /\ [](OracleCallFailed =>
          /\ pc = "done"
          /\ Returned
          /\ ~Res.task_completed
          /\ IsSome(Res.error))
  /\ [][ OracleCallFailed => (log' = log /\ decide_calls' = decide_calls) ]_vars

C10_Witness ==
  /\ OracleCallFailed
  /\ pc = "done"
  /\ retry < max_retries_per_step

MixedFailures ==
  /\ "parse_fail" \in {log[i] : i \in DOMAIN log}
  /\ {"rejected", "hard_err"} \cap {log[i] : i \in DOMAIN log} # {}

\* C11: in every step, whatever mix of parse failures, rejected actions and
\* hard errors occurs, there are at most max_retries_per_step + 1
\* decision-oracle calls and at most max_retries_per_step + 1 executions,
\* and the retry index stays within 0..max_retries_per_step.
C11_RetryBounded ==
  /\ StepDecideCalls <= max_retries_per_step + 1
  /\ StepExecCalls <= max_retries_per_step + 1
  /\ retry \in 0..max_retries_per_step

C11_Witness ==
  /\ MixedFailures
  /\ pc = "done"
  /\ StepDecideCalls = MaxRetriesBound + 1
  /\ retry = MaxRetriesBound

\* The three terminal conditions, read off what the run handed back.
EndedCompleted == Returned /\ Res.task_completed

EndedOnBudget ==
  /\ Returned
  /\ ~Res.task_completed
  /\ IsSome(Res.error)
  /\ IsPrefix(<<"Reached maximum steps (">>, Unwrap(Res.error))

EndedFatal ==
  \/ IsSome(fault) /\ ~Returned
  \/ /\ Returned
     /\ ~Res.task_completed
     /\ IsSome(Res.error)
     /\ \/ IsPrefix(<<"Failed to extract context at step ">>, Unwrap(Res.error))
        \/ IsPrefix(<<"Failed at step ">>, Unwrap(Res.error))

ExactlyOneOf(a, b, c) ==
  \/ a /\ ~b /\ ~c
  \/ ~a /\ b /\ ~c
  \/ ~a /\ ~b /\ c

\* C12: when every awaited call returns, every run ends, in exactly one of
\* completion, step-budget exhaustion or a fatal error, having made at most
\* max_steps * (max_retries_per_step + 1) decision-oracle calls and at most
\* max_steps completion-oracle calls.
C12_RunTerminates ==
  /\ <>(pc = "done")
  /\ [](pc = "done" => ExactlyOneOf(EndedCompleted, EndedOnBudget, EndedFatal))
  /\ [](pc # "done" => ~Returned /\ ~IsSome(fault))
  /\ [](/\ decide_calls <= max_steps * (max_retries_per_step + 1)
        /\ comp_calls <= max_steps)

C12_Witness ==
  /\ pc = "done"
  /\ EndedOnBudget
  /\ decide_calls = MaxStepsBound * (MaxRetriesBound + 1)
  /\ comp_calls = MaxStepsBound

\* A click or type call that found its target, and the target.
TargetFound ==
  /\ IsSome(b_request)
  /\ Unwrap(b_request).tool \in {"click", "type"}
  /\ Len(b_calls) >= 2

Target == b_calls[2][2]

\* No click and no key reached the page.
NoInputMade ==
  /\ \A i \in DOMAIN b_calls :
        b_calls[i][1] \in {"find_element", "is_element_visible", "is_element_enabled"}
  /\ \A e \in Elems : clicks[e] = 0 /\ typed[e] = None

Signed(neg, hi, lo) == [neg |-> neg, hi |-> hi, lo |-> lo]

\* The integer an i32 stands for.
MathOf(x) ==
  IF x >= 0 THEN Signed(FALSE, x \div Half, x % Half)
  ELSE IF x = I32Min THEN Signed(TRUE, 2^15, 0)
  ELSE Signed(TRUE, (-x) \div Half, (-x) % Half)

Plus(a) == Signed(FALSE, a.hi, a.lo)
Minus(a) == Signed(a # U32(0, 0), a.hi, a.lo)
Zero == Signed(FALSE, 0, 0)

ScrollRequested == IsSome(b_request) /\ Unwrap(b_request).tool = "scroll"

RequestedAmount ==
  IF IsSome(Unwrap(b_request).amount)
    THEN Unwrap(Unwrap(b_request).amount)
    ELSE U32(0, 300)

\* C14: for every scroll request with direction d and amount a (any u32;
\* 300 when absent) the offsets passed to the page are (0, +a) for down,
\* (0, -a) for up, (+a, 0) for right and (-a, 0) for left.
C14_ScrollOffsetsExact ==
  ScrollRequested =>
    LET d == Unwrap(b_request).direction
        a == RequestedAmount
    IN
    /\ Len(b_calls) = 1
    /\ << MathOf(b_calls[1][2]), MathOf(b_calls[1][3]) >> =
         CASE d = "down" -> << Zero, Plus(a) >>
           [] d = "up" -> << Zero, Minus(a) >>
           [] d = "right" -> << Plus(a), Zero >>
           [] d = "left" -> << Minus(a), Zero >>

\* The role with its first letter in upper case, as in the documented
\* format "[1] Button('Login')".
Capitalised(role) ==
  CASE role = "button" -> "Button"
    [] role = "textbox" -> "Textbox"

UserPromptBuilt == IsSome(p_prompt) /\ p_retry = None

\* How the claim says a named element is rendered.
DocumentedLine(e) ==
  <<"[", ToString(e.id), "] ", Capitalised(e.selector.role), "('",
    Unwrap(e.selector.name), "')", " - in_viewport: ", BoolStr(e.in_viewport)>>

\* C15: the user prompt contains the literal task and, for each named
\* element built by SimplifiedElement::new, the text [id] Role('name') with
\* the role capitalised, followed by its in_viewport flag: for id 1, role
\* button and name Login the text [1] Button('Login').
C15_ElementLineCapitalised ==
  UserPromptBuilt =>
    /\ Contains(Unwrap(p_prompt), T(p_task))
    /\ \A i \in DOMAIN p_context.elements :
         IsSome(p_context.elements[i].selector.name) =>
           Contains(Unwrap(p_prompt), DocumentedLine(p_context.elements[i]))

\* C16: execute_single_step never returns an error to its caller, and
\* whenever its result has success = false the result carries an error
\* string, whatever the cause: extraction, the oracle, the parse, a hard
\* execution error or an action rejected with success = false.
C16_SingleStepFailureHasError ==
  s_pc = "done" =>
    /\ IsSome(s_result)
    /\ Unwrap(s_result).ok
    /\ ~Unwrap(s_result).val.success => IsSome(Unwrap(s_result).val.error)

\* A token decoded by a handler of the secret it was encoded with.
DecodedWithSameSecret ==
  /\ IsSome(j_decoded)
  /\ Unwrap(j_decoded).secret = Unwrap(j_token).secret

MadeWithPositiveExpiration ==
  /\ j_made.by = "new"
  /\ U64Less(U64(0), j_made.expiration_seconds)

SameSubAndUsername(ret, claims) ==
  /\ ret.ok
  /\ ret.val.sub = claims.sub
  /\ ret.val.username = claims.username

StaleAt(claims, now) == claims.exp.k = 0 /\ claims.exp.v + Leeway < now

Saved == r_last.op = "save" /\ r_last.ret.ok
Deleted == r_last.op = "delete" /\ r_last.ret.ok

\* C19: after save(s), get(s.id) returns a session with the same id and,
\* when s has a user_id, list_user_sessions(user_id) contains s.id; after
\* delete(s.id), get(s.id) returns none and the session index of the user
\* of s does not contain s.id.
C19_SaveGetDelete ==
  /\ Saved =>
       LET s == r_last.session
           got == store_get(r_keys, s.id)
       IN /\ got.ok /\ IsSome(got.val) /\ Unwrap(got.val).id = s.id
          /\ IsSome(s.user_id) =>
               s.id \in list_user_sessions(r_index, Unwrap(s.user_id)).val
  /\ Deleted =>
       /\ store_get(r_keys, r_last.id) = Ok(None)
       /\ \A s \in Sessions :
            s.id = r_last.id /\ IsSome(s.user_id) =>
              s.id \notin list_user_sessions(r_index, Unwrap(s.user_id)).val

AfterSave ==
  Saved =>
    LET s == r_last.session
        got == store_get(r_keys, s.id)
    IN /\ got.ok /\ IsSome(got.val) /\ Unwrap(got.val).id = s.id
       /\ IsSome(s.user_id) =>
            s.id \in list_user_sessions(r_index, Unwrap(s.user_id)).val

\* C19, amended: after a save that succeeds, get and list_user_sessions find
\* the session; after a delete, get returns none, and the index of the user
\* no longer contains the id when the session was still stored as the delete
\* began.
C19_DeleteOfStoredSession ==
  /\ AfterSave
  /\ Deleted =>
       /\ store_get(r_keys, r_last.id) = Ok(None)
       /\ IsSome(r_last.found) /\ IsSome(Unwrap(r_last.found).user_id) =>
            r_last.id \notin
              list_user_sessions(r_index, Unwrap(Unwrap(r_last.found).user_id)).val

\* A stored session of a user who has another one is deleted.
C19_Witness ==
  /\ Deleted
  /\ IsSome(r_last.found)
  /\ Unwrap(r_last.found).user_id = Some("u1")
  /\ r_index["u1"].members = SessionIds \ {"s3", r_last.id}

\* The decision oracle is about to be called.
AboutToDecide == pc = "decide"

\* The prompt shows the page of a snapshot: its url, title and element lines.
Renders(prompt, ctx) ==
  /\ Contains(prompt, <<ctx.url, "\nTitle: ", ctx.title>>)
  /\ Contains(prompt, <<"\n\nAvailable Elements (Accessibility Tree):\n">>
                         \o Trim(elements_str(ctx.elements)))

\* C20: before every decision-oracle call, retries within a step included,
\* a fresh UIContext is extracted (no decision call lies between the
\* extraction and this call), and the prompt of the call renders it.
C20_FreshContextEveryCall ==
  AboutToDecide =>
    /\ StepDecideCalls = 0
    /\ IsSome(context)
    /\ Renders(current_prompt, Unwrap(context))

\* C20, amended: a UIContext is extracted once at the top of each step; the
\* first decision call of the step follows that extraction directly, and
\* every decision call of the step, retries included, has a prompt that
\* renders that one snapshot.
C20_StepSnapshotEveryCall ==
  AboutToDecide =>
    /\ IsSome(context)
    /\ StepDecideCalls = 0 =>
         /\ Unwrap(context) = Context(page)
         /\ current_prompt = build_user_prompt(Unwrap(context), Task)
    /\ Renders(current_prompt, Unwrap(context))

\* A retry after a rejected action, on a page with elements.
C20_Witness ==
  /\ AboutToDecide
  /\ retry = 1
  /\ log # << >> /\ Last(log) = "rejected"
  /\ Unwrap(context).elements # << >>

\* The run left by the return for a failed snapshot at the top of a step.
ExtractionFailed == exit_path = "extract_failed"

\* C21: when the snapshot at the top of step k fails, the run is over at
\* once with task_completed = false, steps_taken and steps the k-1 steps
\* recorded so far and an explanatory error; step k makes no decision-oracle
\* call, no execution and no completion-oracle call, and none follows.
C21_ExtractionFailureIsFatal ==
  /\ [](ExtractionFailed =>
          /\ pc = "done"
          /\ Returned
          /\ ~Res.task_completed
          /\ Res.steps_taken = step_num - 1
          /\ Len(Res.steps) = step_num - 1
          /\ Res.steps = steps
          /\ IsSome(Res.error)
          /\ IsPrefix(<<"Failed to extract context at step ", ToString(step_num)>>,
                      Unwrap(Res.error))
          /\ log = << >>
          /\ comp_calls = step_num - 1)
  /\ [][ pc = "extract" /\ ExtractionFailed' =>
           /\ steps' = steps
           /\ decide_calls' = decide_calls
           /\ comp_calls' = comp_calls ]_vars
  /\ [][ ExtractionFailed =>
           UNCHANGED << log, decide_calls, comp_calls, steps, result >> ]_vars

C21_Witness ==
  /\ ExtractionFailed
  /\ step_num = 2
  /\ Len(Res.steps) = 1

\* The run left by the return for a failed retry engine.
EngineFailed == exit_path = "step_failed"

\* C22: when the retry engine fails in step k (retries exhausted or a failed
\* oracle call), the run is over at once with task_completed = false,
\* final_context the snapshot taken at the top of step k, and the history as
\* it was: no ConversationStep for step k.
C22_EngineFailureIsFatal ==
  /\ [](EngineFailed =>
          /\ pc = "done"
          /\ Returned
          /\ ~Res.task_completed
          /\ IsSome(Res.error)
          /\ IsSome(context)
          /\ Res.final_context = context
          /\ Res.steps = steps
          /\ Len(Res.steps) = step_num - 1)
  /\ [][ (pc \in {"decide", "execute"}) =>
           /\ context' = context
           /\ (pc' \in {"decide", "execute", "done"} => steps' = steps) ]_vars
  /\ [][ pc = "extract" /\ pc' = "decide" => context' = Some(Context(page)) ]_vars

C22_Witness ==
  /\ EngineFailed
  /\ step_num = 2
  /\ Len(Res.steps) = 1
  /\ Res.final_context = Some(Context(page))

\* C24: once the completion oracle reports completed = true after step k,
\* the run is over at once with task_completed = true, steps_taken = k, no
\* error and final_context the post-action context of step k; no
\* decision-oracle call, execution or completion-oracle call follows.
C24_CompletionEndsRun ==
  /\ [](ReplyCompleted(comp_reply) =>
          /\ pc = "done"
          /\ exit_path = "completed"
          /\ Returned
          /\ Res.task_completed
          /\ Res.steps_taken = step_num
          /\ Len(Res.steps) = step_num
          /\ Res.error = None
          /\ Res.final_context = Some(Last(steps).context_after)
          /\ Last(steps).step_number = step_num)
  /\ [][ ReplyCompleted(comp_reply) =>
           UNCHANGED << log, decide_calls, comp_calls, steps, result >> ]_vars

\* Completion reported after the second step, on a page other than the one
\* the step began on.
C24_Witness ==
  /\ ReplyCompleted(comp_reply)
  /\ Returned
  /\ step_num = 2
  /\ Res.final_context # context

\* C25: when max_steps steps succeed without the completion oracle reporting
\* completion, the run ends with task_completed = false, an explanatory
\* error, steps_taken = max_steps and exactly max_steps recorded steps.
C25_BudgetExhaustion ==
  /\ [](pc = "final" =>
          /\ Len(steps) = max_steps
          /\ comp_calls = max_steps
          /\ ~Returned)
  /\ [][ pc = "final" =>
           /\ exit_path' = "budget"
           /\ pc' = "done"
           /\ steps' = steps ]_vars
  /\ [](exit_path = "budget" =>
          /\ Returned
          /\ ~Res.task_completed
          /\ IsSome(Res.error)
          /\ IsPrefix(<<"Reached maximum steps (", ToString(max_steps)>>,
                      Unwrap(Res.error))
          /\ Res.steps_taken = max_steps
          /\ Len(Res.steps) = max_steps)

C25_Witness ==
  /\ exit_path = "budget"
  /\ max_steps = MaxStepsBound
  /\ Len(Res.steps) = MaxStepsBound
  /\ ~ReplyCompleted(comp_reply)

FailureEvents == {"llm_err", "parse_fail", "rejected", "hard_err"}

\* C26: with max_steps = 0 the run returns a result with no steps and
\* steps_taken = 0, having made no decision-oracle call, no execution and no
\* completion-oracle call; with max_retries_per_step = 0 every step makes one
\* decision-oracle call and at most one execution, and a failure of that
\* attempt fails the step.
C26_BoundaryConfigurations ==
  /\ max_steps = 0 =>
       /\ decide_calls = 0
       /\ comp_calls = 0
       /\ log = << >>
       /\ steps = << >>
       /\ fault = None
       /\ pc = "done" =>
            /\ Returned
            /\ Res.steps_taken = 0
            /\ Res.steps = << >>
  /\ max_retries_per_step = 0 =>
       /\ retry = 0
       /\ retries_performed = 0
       /\ StepDecideCalls <= 1
       /\ StepExecCalls <= 1
       /\ pc \in {"execute", "extract_after", "complete"} => StepDecideCalls = 1
       /\ (\E i \in DOMAIN log : log[i] \in FailureEvents) =>
            /\ pc = "done"
            /\ exit_path = "step_failed"
            /\ Returned
            /\ ~Res.task_completed
            /\ IsSome(Res.error)

\* Without retries, the one attempt of the second step is rejected.
C26_Witness ==
  /\ max_retries_per_step = 0
  /\ step_num = 2
  /\ log = << "parsed", "rejected" >>
  /\ exit_path = "step_failed"

\* A run without a step budget has returned.
C26_ZeroBudgetReturned == max_steps = 0 /\ pc = "done" /\ Returned

\* The run is in the snapshot, a decision call or an execution of a step.
InStepBody == pc \in {"extract", "decide", "execute"}

\* C27: the steps of a run are strictly sequential: while the snapshot, a
\* decision-oracle call or an execution of step N+1 is under way, the
\* re-snapshot and the completion check of each of the steps 1..N are over,
\* and the step number only moves on, by one, out of a completion check.
C27_StepsSequential ==
  /\ [](InStepBody =>
          /\ Len(steps) = step_num - 1
          /\ comp_calls = step_num - 1
          /\ context_after = None
          /\ ~Returned)
  /\ [][ step_num' # step_num =>
           /\ pc = "complete"
           /\ step_num' = step_num + 1
           /\ Len(steps) = step_num
           /\ comp_calls' = step_num ]_vars
  /\ [][ (pc' \in {"extract", "decide", "execute"}) =>
           pc \in {"extract", "decide", "execute", "complete"} ]_vars

\* An execution of the second step.
C27_Witness ==
  /\ pc = "execute"
  /\ step_num = 2
  /\ Len(steps) = 1

ParseJustFailed == log # << >> /\ Last(log) = "parse_fail"

\* C29: when a decision reply fails to parse and attempts remain, the next
\* decision-oracle call of the step has the same user prompt as the call
\* whose reply failed (the prompt is left as it is and nothing is executed);
\* when no attempts remain the step fails with a parse-error message.
C29_ParseFailureKeepsPrompt ==
  /\ [][ (pc = "decide" /\ log' # log /\ Last(log') = "parse_fail") =>
           IF retry < max_retries_per_step
             THEN /\ pc' = "decide"
                  /\ current_prompt' = current_prompt
                  /\ retry' = retry + 1
                  /\ StepExecCalls' = StepExecCalls
                  /\ result' = None
             ELSE /\ pc' = "done"
                  /\ exit_path' = "step_failed"
                  /\ IsSome(result')
                  /\ ~Unwrap(result').task_completed
                  /\ Contains(Unwrap(Unwrap(result').error),
                              T("Failed to parse LLM response: "))
                  /\ StepExecCalls' = StepExecCalls ]_vars
  /\ [](ParseJustFailed => pc \in {"decide", "done"})

\* A retry after an unparseable reply to the first call of a step.
C29_Witness ==
  /\ pc = "decide"
  /\ ParseJustFailed
  /\ retry = 1
  /\ current_prompt = build_user_prompt(Unwrap(context), Task)

\* The step just recorded does not show the page as it now is: its
\* re-snapshot failed.
RecordedWithoutResnapshot ==
  /\ steps # << >>
  /\ Last(steps).step_number = step_num
  /\ Last(steps).context_after # Context(page)

\* C23: when the re-snapshot after a successful action fails, the run does
\* not stop: a ConversationStep is appended for the step all the same, with
\* context_after the pre-action context of the step, and the completion check
\* comes next, with the later steps after it.
C23_ResnapshotFailureNotFatal ==
  /\ [][ pc = "extract_after" =>
           /\ pc' = "complete"
           /\ result' = None
           /\ fault' = None
           /\ Len(steps') = Len(steps) + 1
           /\ SubSeq(steps', 1, Len(steps)) = steps
           /\ Last(steps').step_number = step_num
           /\ Last(steps').action_decided = Unwrap(action)
           /\ Last(steps').action_result.success
           /\ context_after' = Some(Last(steps').context_after)
           /\ RecordedWithoutResnapshot' =>
                Last(steps').context_after = Unwrap(context) ]_vars
  /\ [][ (pc = "complete" /\ RecordedWithoutResnapshot) =>
           /\ comp_calls' = comp_calls + 1
           /\ (IsSome(comp_reply') /\ Unwrap(comp_reply').ok
                 /\ ~CompletionVerdict(Unwrap(comp_reply').val)) =>
                /\ step_num' = step_num + 1
                /\ pc' = (IF step_num < max_steps THEN "extract" ELSE "final")
                /\ result' = None ]_vars

\* The second step begins after a first step whose re-snapshot failed on a
\* page that the action had changed.
C23_Witness ==
  /\ pc = "extract"
  /\ step_num = 2
  /\ Len(steps) = 1
  /\ steps[1].context_after # Context(page)

\* The summary lines of a history, one after the other.
RECURSIVE LinesOf(_)
LinesOf(history) ==
  IF history = << >> THEN << >>
  ELSE <<"Step ", ToString(Head(history).step_number), ": ">>
         \o DebugAction(Head(history).action_decided)
         \o <<" - ", "Action executed successfully", "\n">>
         \o LinesOf(Tail(history))

\* C28: the completion oracle is called once after each appended
\* ConversationStep and at no other time, and each call is given the whole
\* history so far, the step just appended included, with the url and title
\* of that step's post-action context.
C28_CompletionCheckPerStep ==
  /\ [](comp_calls = (IF pc = "complete" THEN Len(steps) - 1 ELSE Len(steps)))
  /\ [][ comp_calls' # comp_calls =>
           /\ pc = "complete"
           /\ comp_calls' = comp_calls + 1
           /\ Len(steps) = comp_calls'
           /\ steps' = steps
           /\ IsSome(comp_prompt')
           /\ Contains(Unwrap(comp_prompt'),
                       <<"\n\nSteps taken so far:\n">> \o LinesOf(steps)
                         \o <<"\n\nCurrent page state:\nURL: ",
                              Last(steps).context_after.url,
                              "\nTitle: ", Last(steps).context_after.title>>) ]_vars
  /\ [][ Len(steps') # Len(steps) => pc' = "complete" ]_vars

\* The completion check after the second step has been made.
C28_Witness ==
  /\ comp_calls = 2
  /\ Len(steps) = 2
  /\ IsSome(comp_prompt)
  /\ steps[1].action_decided # steps[2].action_decided

\* The message and the suggestion of a response, as the claim words them.
MessageUsed(resp) ==
  CASE resp.error # None -> resp.error[1]
    [] resp.reason # None -> resp.reason[1]
    [] OTHER -> T("Action failed")

SuggestionUsed(resp) ==
  CASE resp.suggestion # None -> resp.suggestion[1]
    [] OTHER -> T("Try a different approach")

\* C30: for an execution that returned success = false, the message used is
\* the response's error if present, else its reason, else a default, and the
\* suggestion its suggestion if present, else "Try a different approach";
\* with attempts left the next prompt is the retry prompt of the serialized
\* failed action, that message and that suggestion; with none left the step
\* fails with that message.
C30_FailureFeedback ==
  IsSome(f_next) =>
    LET next == Unwrap(f_next) IN
    IF f_retry < f_max_retries
      THEN /\ next.ok
           /\ Contains(next.val,
                <<"\n\nPrevious Action Attempted:\n">> \o SerializeAction(f_action)
                  \o <<"\n\nThis action failed with error: ">> \o MessageUsed(f_result)
                  \o <<"\n\nSuggestion: ">> \o SuggestionUsed(f_result)
                  \o <<"\n\nBased on this feedback, please provide the CORRECTED NEXT ACTION as a JSON object.">>)
           /\ Contains(next.val, <<f_context.url, "\nTitle: ", f_context.title>>)
      ELSE /\ ~next.ok
           /\ next.err = <<"Action failed after ", ToString(f_max_retries), " retries: ">>
                           \o MessageUsed(f_result)

\* A response with a reason only, and an attempt left.
C30_Witness ==
  /\ IsSome(f_next)
  /\ f_result.error = None
  /\ f_result.reason # None
  /\ f_result.suggestion = None
  /\ f_retry < f_max_retries

\* An execution has just ended in a hard error.
HardErrorNow == pc = "execute" /\ log' # log /\ Last(log') = "hard_err"

\* What follows a hard error, the generic suggestion being the text given.
AfterHardError(generic) ==
  LET a == Unwrap(action)
      e == Unwrap(last_attempt').outcome.err
  IN IF retry < max_retries_per_step
       THEN /\ pc' = "decide"
            /\ retry' = retry + 1
            /\ result' = None
            /\ Contains(current_prompt',
                 <<"\n\nPrevious Action Attempted:\n">> \o SerializeAction(a)
                   \o <<"\n\nThis action failed with error: ">> \o e
                   \o <<"\n\nSuggestion: ", generic>>)
       ELSE /\ pc' = "done"
            /\ exit_path' = "step_failed"
            /\ IsSome(result')
            /\ ~Unwrap(result').task_completed
            /\ Contains(Unwrap(Unwrap(result').error), e)

\* C31: when an execution raises a hard error and attempts remain, the step
\* is retried with a retry prompt built from the failed action, the error
\* text and the generic suggestion "check if the element exists and is
\* interactable"; when none remain the error is propagated and the run ends
\* with task_completed = false.
C31_HardErrorRetried ==
  [][ HardErrorNow => AfterHardError("check if the element exists and is interactable") ]_vars

\* C31, amended: the same, the generic suggestion being the text the code
\* has, "Check if the element exists and is interactable".
C31_HardErrorRetriedAsCoded ==
  [][ HardErrorNow => AfterHardError("Check if the element exists and is interactable") ]_vars

\* A retry after a hard error.
C31_Witness ==
  /\ pc = "decide"
  /\ retry = 1
  /\ log # << >> /\ Last(log) = "hard_err"
  /\ ~Unwrap(last_attempt).outcome.ok

AttemptFailures == {"parse_fail", "rejected", "hard_err"}

\* An execution has just returned success = true.
SucceededNow == pc = "execute" /\ log' # log /\ Last(log') = "success"

\* C32: when a step succeeds the retry engine hands back the accepted
\* action, the decision text of the successful attempt and a retry count
\* equal to the number of failed attempts (parse failures, rejected actions,
\* hard errors) that came before it in the step, 0 when the first attempt
\* succeeds.
C32_EngineReturnsRetries ==
  /\ [][ SucceededNow =>
           /\ pc' = "extract_after"
           /\ total_retries' = total_retries + CountIn(log, AttemptFailures)
           /\ retry = CountIn(log, AttemptFailures)
           /\ (StepDecideCalls = 1 => total_retries' = total_retries)
           /\ action' = action
           /\ llm_response' = llm_response
           /\ Unwrap(last_attempt').action = Unwrap(action)
           /\ Unwrap(last_attempt').outcome.val.success
           /\ ParseAction(Unwrap(llm_response)) = Ok(Unwrap(action)) ]_vars
  /\ [][ pc = "extract_after" =>
           /\ Last(steps').action_decided = Unwrap(action)
           /\ Last(steps').llm_response = Unwrap(llm_response) ]_vars

\* The second attempt of a step has succeeded, with another action than the
\* failed one.
C32_Witness ==
  /\ pc = "extract_after"
  /\ retry = 1
  /\ log = << "parsed", "rejected", "parsed", "success" >>
  /\ Unwrap(action).tool = "scroll"

\* C38: in every result of execute_multi_step, task_completed is true
\* exactly when error is absent; and when task_completed is true, steps is
\* not empty and final_context is the context_after of the last step.
C38_CompletedIffNoError ==
  Returned =>
    /\ Res.task_completed <=> Res.error = None
    /\ Res.task_completed =>
         /\ Res.steps # << >>
         /\ Res.final_context = Some(Last(Res.steps).context_after)

\* A completed run of two steps that ended on another page than the first step.
C38_Witness ==
  /\ Returned
  /\ Res.task_completed
  /\ Len(Res.steps) = 2
  /\ Res.steps[1].context_after # Res.steps[2].context_after

\* C39: a ConversationStep is appended only for an attempt whose execution
\* returned success = true, one for each: failed attempts (unparseable
\* replies, rejected actions, hard errors) leave the history as it is, and
\* every recorded step has action_result.success = true and no error.
C39_OnlySuccessesRecorded ==
  /\ [](\A i \in DOMAIN steps :
          /\ steps[i].action_result.success
          /\ steps[i].action_result.error = None)
  /\ [][ Len(steps') # Len(steps) =>
           /\ pc = "extract_after"
           /\ Last(log) = "success"
           /\ Len(steps') = Len(steps) + 1
           /\ Unwrap(last_attempt).outcome.ok
           /\ Unwrap(last_attempt).outcome.val.success
           /\ Last(steps').action_decided = Unwrap(last_attempt).action ]_vars
  /\ [][ (log' # log /\ log' # << >> /\ Last(log') \in FailureEvents) =>
           steps' = steps ]_vars
  /\ [][ SucceededNow => pc' = "extract_after" /\ steps' = steps ]_vars
  /\ [](pc = "extract_after" => Last(log) = "success" /\ Len(steps) = step_num - 1)

\* A step recorded after a rejected attempt and a successful one.
C39_Witness ==
  /\ pc = "complete"
  /\ log = << "parsed", "rejected", "parsed", "success" >>
  /\ Len(steps) = 2

(***************************************************************************)
(* Element resolution and the classification of failures.                  *)
(***************************************************************************)
\* The request of the execute_action call made, when it targets an element.
OnElement ==
  /\ b_request # None
  /\ Unwrap(b_request).tool \in {"click", "type"}

\* The find-element script ran: the call was not answered "Failed to ...".
MatchRan ==
  ~ /\ Unwrap(b_response).ok
    /\ Unwrap(b_response).val.error = Some(T("execution_error"))

\* The element the checks and the click or typing were applied to.
Resolved == IF Len(b_calls) >= 2 THEN Some(b_calls[2][2]) ELSE None

\* C33: the semantic match's element is the one acted on; without a match
\* and with a css_fallback, the fallback's element is; without either, the
\* response is element_not_found and nothing is done on the page.
C33_ResolutionOrder ==
  (OnElement /\ MatchRan) =>
    LET sel == Unwrap(b_request).selector IN
    /\ dom.sem # None => Resolved = dom.sem
    /\ (dom.sem = None /\ IsSome(sel.css_fallback) /\ dom.css # None) =>
         Resolved = dom.css
    /\ (dom.sem = None /\ (sel.css_fallback = None \/ dom.css = None)) =>
         /\ b_response = Some(Ok(element_not_found(sel)))
         /\ b_calls = << <<"find_element">> >>

ErrorKinds ==
  { T("element_not_found"), T("element_not_visible"), T("element_not_enabled"),
    T("timeout"), T("execution_error") }

\* C34: a response of execute_action that is no success names one of the
\* five kinds of error, and a success names none.
C34_ErrorKindsClosed ==
  (b_response # None /\ Unwrap(b_response).ok) =>
    LET r == Unwrap(b_response).val IN
    /\ r.success => r.error = None
    /\ ~r.success => (r.error # None /\ Unwrap(r.error) \in ErrorKinds)

\* A click answered element_not_visible.
C34_Witness ==
  /\ OnElement
  /\ Unwrap(b_request).tool = "click"
  /\ Unwrap(b_response).ok
  /\ ~Unwrap(b_response).val.success
  /\ Unwrap(b_response).val.error = Some(T("element_not_visible"))

(***************************************************************************)
(* The context block of the two prompts.                                   *)
(***************************************************************************)
\* The context block build_user_prompt renders: its text before the task.
UserContextBlock(ctx, task) ==
  LET text == build_user_prompt(ctx, task)
  IN SubSeq(text, 1, Len(text) - 3)

RetryPromptBuilt == IsSome(p_prompt) /\ p_retry # None

\* C35: the retry prompt holds the context block of the user prompt for
\* the same UIContext (url, title, viewport and scroll, the element
\* lines), and the previous action, the error message and the suggestion.
C35_RetrySameContextBlock ==
  RetryPromptBuilt =>
    /\ Contains(Unwrap(p_prompt), UserContextBlock(p_context, p_task))
    /\ Contains(Unwrap(p_prompt), Unwrap(p_retry).failed_action)
    /\ Contains(Unwrap(p_prompt), Unwrap(p_retry).error_message)
    /\ Contains(Unwrap(p_prompt), Unwrap(p_retry).suggestion)

(***************************************************************************)
(* The decision-oracle adapter.                                            *)
(***************************************************************************)
NoContent(response) ==
  /\ response.ok
  /\ \/ response.val.choices = << >>
     \/ Head(response.val.choices).content = None

\* C36: a generate_json call whose reply has no choice, or a first choice
\* without content, returns an error; a text it returns is the content of
\* the first choice as it came; and the call sent one request, built from
\* the prompts passed, and sends no other.
C36_AdapterFailsWithoutContent ==
  /\ l_pc = "call" => l_requests = << >>
  /\ l_pc # "call" =>
       l_requests = << CreateChatCompletionRequest(l_model, build_system_prompt, l_user) >>
  /\ l_pc = "done" =>
       LET response == Unwrap(l_response)
           ret == Unwrap(l_result)
       IN /\ NoContent(response) => ret = Err(T("No response from LLM"))
          /\ ~response.ok => ret = Err(response.err)
          /\ ret.ok =>
               /\ response.ok
               /\ response.val.choices # << >>
               /\ Head(response.val.choices).content = Some(ret.val)

\* A reply whose first choice has no content and whose second has one.
C36_Witness ==
  /\ l_pc = "done"
  /\ Unwrap(l_response).ok
  /\ Len(Unwrap(l_response).val.choices) = 2
  /\ Unwrap(l_response).val.choices[1].content = None
  /\ Unwrap(l_response).val.choices[2].content # None
  /\ ~Unwrap(l_result).ok

(***************************************************************************)
(* The registry of sessions.                                               *)
(***************************************************************************)
\* The calls made on one session.
SessionCalls ==
  { "create_session_called", "create_session", "get_browser", "get_session",
    "update_activity", "remove_session", "execute_action", "get_context" }

\* C37: a call on one session (its creation, a snapshot, an action, an
\* activity update, its removal) leaves the registry entry, the browser
\* handle and the page of every other session as they were.
C37_SessionsIsolated ==
  [][ \A b \in ManagerIds :
        (m_last'.op \in SessionCalls /\ m_last'.id # b) =>
          /\ m_sessions'[b] = m_sessions[b]
          /\ m_pages'[b] = m_pages[b] ]_vars

\* Session 1 removed while session 2, used since its creation, is as it was.
C37_Witness ==
  /\ m_last = [op |-> "remove_session", id |-> 1, ret |-> Ok("unit")]
  /\ m_sessions[1] = None
  /\ m_sessions[2] # None
  /\ Unwrap(m_sessions[2]).session.last_activity > Unwrap(m_sessions[2]).session.created_at
  /\ m_pages[2] = Some([url |-> "http://localhost:3000/home"])

OnUnknownId(call) ==
  /\ call.op \in {"get_browser", "get_session", "update_activity", "remove_session"}
  /\ call.id \notin Keys(m_sessions)

\* C40: the registry gains exactly the id a successful create_session
\* returns and loses exactly the id a successful remove_session names;
\* list_sessions and session_count report its keys; a create_session whose
\* browser launch fails and a call on an id not registered return an error
\* and leave the registry as it was.
C40_RegistryExact ==
  /\ [][ (m_last'.op = "create_session" /\ m_last'.ret.ok) =>
           /\ m_last'.ret.val = m_last'.id
           /\ m_last'.id \notin Keys(m_sessions)
           /\ Keys(m_sessions') = Keys(m_sessions) \cup {m_last'.id} ]_vars
  /\ [][ (m_last'.op = "create_session" /\ ~m_last'.ret.ok) =>
           m_sessions' = m_sessions ]_vars
  /\ [][ (m_last'.op = "remove_session" /\ m_last'.ret.ok) =>
           /\ m_last'.id \in Keys(m_sessions)
           /\ Keys(m_sessions') = Keys(m_sessions) \ {m_last'.id} ]_vars
  /\ [][ Keys(m_sessions') # Keys(m_sessions) =>
           /\ m_last'.op \in {"create_session", "remove_session"}
           /\ m_last'.ret.ok ]_vars
  /\ [][ OnUnknownId(m_last') =>
           /\ m_last'.ret = NotFound
           /\ m_sessions' = m_sessions ]_vars
  /\ [][ m_last'.op = "list_sessions" =>
           /\ { m_last'.ret[i] : i \in DOMAIN m_last'.ret } = Keys(m_sessions)
           /\ Len(m_last'.ret) = Cardinality(Keys(m_sessions))
           /\ m_sessions' = m_sessions ]_vars
  /\ [][ m_last'.op = "session_count" =>
           /\ m_last'.ret = Cardinality(Keys(m_sessions))
           /\ m_sessions' = m_sessions ]_vars

\* Both ids issued, session 2 registered alone, and a removal of id 1,
\* which is not registered, refused.
C40_Witness ==
  /\ m_last = [op |-> "remove_session", id |-> 1, ret |-> NotFound]
  /\ m_next_id = 3
  /\ m_pending = {}
  /\ Keys(m_sessions) = {2}

=============================================================================
